---- MODULE Spec2Model ----
(***************************************************************************)
(* The agent loops of build-your-own-coding-agent: Agent.run of the        *)
(* chapter-1 chat (no tools), the chapter-3 tool agent (executors raise),  *)
(* the chapter-4 Result-tuple agent (executors return [Error, value]) and  *)
(* the streaming agents (plain streaming, extended thinking, staged        *)
(* reasoning), together with the console module they print to.            *)
(* JavaScript values are records tagged by t ("undefined", "string",       *)
(* "Error") so that truthiness, String(v) and err.message are computed as  *)
(* the code computes them.                                                 *)
(***************************************************************************)
EXTENDS Naturals, Sequences, FiniteSets

VARIABLES
    kind,               \* which Agent class is running
    tools,              \* this.tools, in registration order
    enableThinking,     \* this.enableThinking of the reasoning agent
    collapseReasoning,  \* this.collapseReasoning of the reasoning agent
    pc,                 \* the await / loop position run() is at
    userInput,          \* the last line read from the input surface
    conversation,       \* the message list of run()
    message,            \* message.content of the response being interpreted
    blk,                \* position of the for-loop in message.content
    hasToolUse,
    toolsResults,
    pendingTool,        \* index in tools of the executor that is awaited, 0 if none
    stream,             \* events of the open stream not yet delivered
    incoming,           \* the content stream.finalMessage() resolves to
    isThinking,         \* Agent.isThinking of the extended-thinking agent
    reasoningState,     \* Agent.reasoningState of the reasoning agent
    delivered,          \* events of the open stream already handed to the handler
    claudeTurnStarted,  \* console.ts module state
    thinkingBlockActive,
    display,            \* every call made on the display surface, in order
    sent,               \* every transport call made: messages and tools given
    execs,              \* every executor invocation, with its outcome
    nextId,             \* the transport's counter for tool_use ids
    applied             \* every call made of a function outside Agent.run, with what it gave

vars == <<kind, tools, enableThinking, collapseReasoning, pc, userInput, conversation, message,
          blk, hasToolUse, toolsResults, pendingTool, stream, incoming,
          isThinking, reasoningState, delivered, claudeTurnStarted,
          thinkingBlockActive, display, sent, execs, nextId, applied>>

config == <<kind, tools, enableThinking, collapseReasoning>>
loop == <<message, blk, hasToolUse, toolsResults, pendingTool>>
streaming == <<stream, incoming, isThinking, reasoningState, delivered>>
console == <<claudeTurnStarted, thinkingBlockActive>>
\* everything Agent.run reads or writes
agent == <<config, pc, userInput, conversation, loop, streaming, console,
           display, sent, execs, nextId>>

(***************************************************************************)
(* Bounds.                                                                 *)
(***************************************************************************)
MaxCalls == 2
MaxBlocks == 2
MaxExecs == 2
\* content blocks answered by the model over the whole run
MaxTotalBlocks == 3
\* calls of a function outside Agent.run that are followed
MaxApplied == 2

(***************************************************************************)
(* JavaScript values.                                                      *)
(***************************************************************************)
Undefined == [t |-> "undefined"]
Str(s) == [t |-> "string", s |-> s]
Err(m) == [t |-> "Error", message |-> m]

\* ToBoolean: undefined and "" are falsy, objects are truthy.
Truthy(v) ==
    CASE v.t = "undefined" -> FALSE
      [] v.t = "string" -> v.s # ""
      [] OTHER -> TRUE

\* a || b
JsOr(a, b) == IF Truthy(a) THEN a ELSE b

\* Object.create(null): an object with no toString and no valueOf
NullPrototypeObject == [t |-> "object"]
\* String(v) throws for an object that has no conversion to a primitive
StringThrows(v) == v.t = "object"
\* the TypeError String(v) throws then
ConversionError == Err("Cannot convert object to primitive value")

\* String(v), for the values it converts
JsString(v) ==
    CASE v.t = "undefined" -> "undefined"
      [] v.t = "string" -> v.s
      [] OTHER -> IF v.message = "" THEN "Error" ELSE "Error: " \o v.message

\* err instanceof Error ? err.message : String(err)
ErrMsg(err) == IF err.t = "Error" THEN err.message ELSE JsString(err)
\* the same expression throws instead of giving a message
ErrMsgThrows(err) == err.t # "Error" /\ StringThrows(err)

(***************************************************************************)
(* The agents.                                                             *)
(***************************************************************************)
Ch1 == "chapter1"               \* src/chapter1/index.ts
Ch3 == "chapter3"               \* src/chapter3/tools/list_files.ts
Ch4 == "chapter4"               \* src/chapter4/agent.ts
Ch6 == "streaming"              \* src/7-reasoning-response/agent.ts, second Agent
Ch6R == "reasoning"             \* src/7-reasoning-response/agent.ts, first Agent
Ch7 == "extended-thinking"      \* src/7-extended-thinking/agent.ts

Kinds == {Ch1, Ch3, Ch4, Ch6, Ch6R, Ch7}
ToolKinds == {Ch3, Ch4, Ch6, Ch6R, Ch7}
\* executors typed Promise<string>, awaited inside try/catch
ThrowKinds == {Ch3, Ch6, Ch6R, Ch7}
\* executors typed Result<string>, awaited without try/catch
TupleKinds == {Ch4}
\* agents printing through console_out
ConsoleKinds == {Ch3, Ch6, Ch7}
\* agents calling client.messages.stream
StreamKinds == {Ch6, Ch6R, Ch7}
\* agents asking for thinking blocks
ThinkingKinds == {Ch6R, Ch7}
\* agents printing through console_reasoning
ReasoningKinds == {Ch6R}
\* ReasoningStage: the stage a thinking block starts in and the other stages
ANALYZING == "ANALYZING"
ReasoningStages == {ANALYZING, "PLANNING"}
\* what detectReasoningStage may answer: a stage or null
DetectedStages == ReasoningStages \cup {"null"}
\* the length of the summary shown for a collapsed reasoning block
SummaryLength == 60
\* String.prototype.slice(0, end), for end >= 0
slice(str, end) == SubSeq(str, 1, IF end < Len(str) THEN end ELSE Len(str))
\* resetReasoningState(): isActive false, currentStage null, accumulatedText ""
IdleReasoning == [isActive |-> FALSE, currentStage |-> "null", accumulatedText |-> ""]

ListFilesToolDefinition == [name |-> "list_files"]
ReadFileToolDefinition == [name |-> "read_file"]

ToolsOf(k) ==
    CASE k = Ch1 -> <<>>
      [] k = Ch3 -> <<ListFilesToolDefinition>>
      [] OTHER -> <<ListFilesToolDefinition, ReadFileToolDefinition>>

(***************************************************************************)
(* What the collaborators can answer.                                      *)
(***************************************************************************)
Lines == {"", "hi"}
Texts == {"x", "y"}
Thoughts == {"hm"}
RequestedNames == {"list_files", "delete_universe"}
ToolInputs == {"."}
ReturnedTexts == {"", "a.txt"}
RaisedValues == {Err("boom"), Err(""), Undefined, NullPrototypeObject}
TupleErrors == {"boom", ""}
RejectedValues == {Err("boom"), Str("oops")}
TransportFaults == {Err("net")}

TextBlock(s) == [type |-> "text", text |-> s]
ThinkingBlock(s) == [type |-> "thinking", thinking |-> s]
ToolUseBlock(id, name, input) ==
    [type |-> "tool_use", id |-> id, name |-> name, input |-> input]

Shapes(k) ==
    {[type |-> "text", name |-> s, input |-> ""] : s \in Texts}
    \cup (IF k \in ToolKinds
          THEN {[type |-> "tool_use", name |-> n, input |-> i] :
                    n \in RequestedNames, i \in ToolInputs}
          ELSE {})

\* a thinking block, when the model emits one, opens the response
FirstShapes(k) ==
    Shapes(k) \cup (IF k \in ThinkingKinds
                    THEN {[type |-> "thinking", name |-> s, input |-> ""] : s \in Thoughts}
                    ELSE {})

BlockOf(shape, id) ==
    CASE shape.type = "text" -> TextBlock(shape.name)
      [] shape.type = "thinking" -> ThinkingBlock(shape.name)
      [] OTHER -> ToolUseBlock(id, shape.name, shape.input)

\* the blocks of a content sequence that name a registered tool
Registered(ts, f) ==
    {i \in DOMAIN f : f[i].type = "tool_use" /\ \E j \in 1..Len(ts) : ts[j].name = f[i].name}

\* every content sequence the model may answer; block i gets id base + i, at
\* most budget blocks ask for a registered tool, and no more than
\* MaxTotalBlocks blocks are answered over the run
Responses(k, ts, base, budget) ==
    UNION {{[i \in 1..n |-> BlockOf(f[i], base + i)] :
                f \in {g \in [1..n -> FirstShapes(k)] :
                          /\ \A i \in 2..n : g[i] \in Shapes(k)
                          /\ Cardinality(Registered(ts, g)) <= budget}} :
              n \in {m \in 0..MaxBlocks : base + m <= MaxTotalBlocks}}

(***************************************************************************)
(* The events a stream delivers for a content sequence: for every block a  *)
(* content_block_start, its deltas and a content_block_stop.               *)
(***************************************************************************)
BlockEvents(b) ==
    CASE b.type = "text" ->
            <<[type |-> "content_block_start", block |-> "text", name |-> ""],
              [type |-> "content_block_delta", delta |-> "text_delta", text |-> b.text],
              [type |-> "content_block_stop"]>>
      [] b.type = "thinking" ->
            <<[type |-> "content_block_start", block |-> "thinking", name |-> ""],
              [type |-> "content_block_delta", delta |-> "thinking_delta", text |-> b.thinking],
              [type |-> "content_block_stop"]>>
      [] OTHER ->
            <<[type |-> "content_block_start", block |-> "tool_use", name |-> b.name],
              [type |-> "content_block_delta", delta |-> "input_json_delta", text |-> b.input],
              [type |-> "content_block_stop"]>>

RECURSIVE EventsOf(_)
EventsOf(content) ==
    IF content = <<>> THEN <<>>
    ELSE BlockEvents(Head(content)) \o EventsOf(Tail(content))

\* seq without its i-th element
Without(seq, i) == SubSeq(seq, 1, i - 1) \o SubSeq(seq, i + 1, Len(seq))

\* the event sequences the transport may deliver for a content sequence: the
\* well-formed one, the one whose first content_block_start is missing (its
\* delta arrives with no block open) and the one whose first
\* content_block_stop is missing (the second block starts inside the first)
Deliveries(content) ==
    {EventsOf(content)}
    \cup (IF Len(content) >= 1 THEN {Without(EventsOf(content), 1)} ELSE {})
    \cup (IF Len(content) >= 2 THEN {Without(EventsOf(content), 3)} ELSE {})

(***************************************************************************)
(* Messages.                                                               *)
(***************************************************************************)
UserText(line) == [role |-> "user", content |-> Str(line)]
Blocks(bs) == [t |-> "blocks", blocks |-> bs]
AssistantMessage(content) == [role |-> "assistant", content |-> Blocks(content)]
ToolResultMessage(results) == [role |-> "user", content |-> Blocks(results)]

\* a result that loses the id of the block it answers
ToolResultWithoutId(id, content, isError) ==
    [type |-> "tool_result", tool_use_id |-> 0, content |-> content,
     is_error |-> isError]

ToolResult(id, content, isError) ==
    [type |-> "tool_result", tool_use_id |-> id, content |-> content,
     is_error |-> isError]

\* params.thinking: the extended-thinking agent always asks for thinking, the
\* reasoning agent when this.enableThinking, the other agents never
ThinkingParam == kind = Ch7 \/ (kind \in ReasoningKinds /\ enableThinking)

\* a call given only the newest message
runInferenceNewestOnly(conv, ts) ==
    [messages |-> SubSeq(conv, Len(conv), Len(conv)), tools |-> ts,
     thinking |-> ThinkingParam]

\* this.tools.map(tool => tool.Param), with messages: conversation
runInference(conv, ts) ==
    [messages |-> conv, tools |-> ts, thinking |-> ThinkingParam]

\* a comparison of names that ignores the case of the registered name
NameMatchesAnyCase(param, toolToUse) ==
    \/ param.name = toolToUse
    \/ param.name = "List_Files" /\ toolToUse = "list_files"

\* tool.Param.name === toolToUse
NameMatches(param, toolToUse) == param.name = toolToUse

\* the first registered tool, whatever the name asked for
FirstTool(ts, name) == IF ts = <<>> THEN 0 ELSE 1

\* for (const tool of this.tools) if (tool.Param.name === toolToUse) ... break
FindTool(ts, name) ==
    IF \E i \in 1..Len(ts) : NameMatches(ts[i], name)
    THEN CHOOSE i \in 1..Len(ts) :
            /\ NameMatches(ts[i], name)
            /\ \A j \in 1..(i - 1) : ~NameMatches(ts[j], name)
    ELSE 0

(***************************************************************************)
(* console.ts: what each call shows, as an entry of the display log.       *)
(***************************************************************************)
\* console_out.claude(text): the prefix is printed when no turn is started
claude(text, started) == [op |-> "claude", text |-> text, prefix |-> ~started]
\* a stream write that prints the prefix with every fragment
claudeStreamPrefixed(delta, started) == [op |-> "claudeStream", text |-> delta, prefix |-> TRUE]
\* console_out.claudeStream(delta)
claudeStream(delta, started) == [op |-> "claudeStream", text |-> delta, prefix |-> ~started]
\* console_out.toolStart(toolName, input)
toolStart(toolName, input) == [op |-> "toolStart", name |-> toolName, input |-> input]
\* console_out.toolEnd(toolName, success)
toolEnd(toolName, success) == [op |-> "toolEnd", name |-> toolName, success |-> success]
\* console_out.finishClaudeTurn(): prints only when a turn is started
finishClaudeTurn(started) == [op |-> "finishClaudeTurn", printed |-> started]
\* console_out.thinkingStart()
thinkingStart == [op |-> "thinkingStart"]
\* console_out.thinkingStream(delta)
thinkingStream(delta) == [op |-> "thinkingStream", text |-> delta]
\* console_out.thinkingEnd(): prints only when a thinking block is active
thinkingEnd(active) == [op |-> "thinkingEnd", printed |-> active]
\* console_reasoning, as called by the reasoning agent
reasoningStart(stage, collapsed) == [op |-> "reasoningStart", stage |-> stage]
reasoningEnd == [op |-> "reasoningEnd"]
reasoningCollapsed(summary) == [op |-> "reasoningCollapsed", text |-> summary]
reasoningThinkingStream(delta, stage) ==
    [op |-> "thinkingStream", text |-> delta, stage |-> stage]
reasoningClaudeStream(delta) == [op |-> "claudeStream", text |-> delta]
reasoningToolStart(toolName) == [op |-> "toolStart", name |-> toolName, input |-> Undefined]
reasoningFinishClaudeTurn == [op |-> "finishClaudeTurn"]
\* console.log(...) of the agents that do not print through console_out
consoleLog(text) == [op |-> "console.log", text |-> text]

Init ==
    /\ kind \in Kinds
    /\ tools = ToolsOf(kind)
    /\ enableThinking \in (IF kind \in ReasoningKinds THEN BOOLEAN ELSE {FALSE})
    /\ collapseReasoning \in (IF kind \in ReasoningKinds THEN BOOLEAN ELSE {FALSE})
    /\ pc = "AwaitingInput"
    /\ userInput = ""
    /\ conversation = <<>>
    /\ message = <<>>
    /\ blk = 0
    /\ hasToolUse = FALSE
    /\ toolsResults = <<>>
    /\ pendingTool = 0
    /\ stream = <<>>
    /\ incoming = <<>>
    /\ isThinking = FALSE
    /\ reasoningState = IdleReasoning
    /\ delivered = <<>>
    /\ claudeTurnStarted = FALSE
    /\ thinkingBlockActive = FALSE
    /\ display = <<>>
    /\ sent = <<>>
    /\ execs = <<>>
    /\ nextId = 0
    /\ applied = <<>>

(***************************************************************************)
(* Agent.run, outer loop: reading a line.                                  *)
(***************************************************************************)
\* no line counts as empty
NeverEmpty(line) == FALSE

\* !userInput
IsEmptyInput(line) == line = ""

\* if (!userInput) continue;
ReadEmptyLine(line) ==
    /\ pc = "AwaitingInput"
    /\ IsEmptyInput(line)
    /\ userInput' = line
    /\ UNCHANGED <<applied, config, pc, conversation, loop, streaming, console, display,
                   sent, execs, nextId>>

\* the call made without the line having been pushed
SubmitWithoutPush(line) ==
    /\ pc = "AwaitingInput"
    /\ ~IsEmptyInput(line)
    /\ Len(sent) < MaxCalls
    /\ userInput' = line
    /\ sent' = Append(sent, runInference(conversation, tools))
    /\ pc' = "Sending"
    /\ UNCHANGED <<applied, config, conversation, loop, streaming, console, display,
                   execs, nextId>>

\* conversation.push({role: "user", content: userInput}); runInference(conversation)
SubmitTurn(line) ==
    /\ pc = "AwaitingInput"
    /\ ~IsEmptyInput(line)
    /\ Len(sent) < MaxCalls
    /\ userInput' = line
    /\ conversation' = Append(conversation, UserText(line))
    /\ sent' = Append(sent, runInference(conversation', tools))
    /\ pc' = "Sending"
    /\ UNCHANGED <<applied, config, loop, streaming, console, display, execs, nextId>>

\* the end of input reported as a fault of the turn
EndOfInputReported ==
    /\ pc = "AwaitingInput"
    /\ display' = Append(display, [op |-> "error", text |-> "closed"])
    /\ pc' = "Returned"
    /\ UNCHANGED <<applied, config, userInput, conversation, loop, streaming, console,
                   sent, execs, nextId>>

\* rl.question rejects / getUserMessage reports the end of input: break
EndOfInput ==
    /\ pc = "AwaitingInput"
    /\ pc' = "Ended"
    /\ UNCHANGED <<applied, config, userInput, conversation, loop, streaming, console,
                   display, sent, execs, nextId>>

(***************************************************************************)
(* Agent.runInference and the start of a while-iteration.                  *)
(***************************************************************************)
\* let toolsResults = [] at the top of every while-iteration
NewToolsResults(previous) == <<>>

\* message = await this.runInference(conversation);
\* conversation.push({role: "assistant", content: message.content});
TransportReturn(content) ==
    /\ pc = "Sending"
    /\ kind \notin StreamKinds
    /\ conversation' = Append(conversation, AssistantMessage(content))
    /\ message' = content
    /\ nextId' = nextId + Len(content)
    /\ hasToolUse' = FALSE
    /\ toolsResults' = NewToolsResults(toolsResults)
    /\ blk' = 1
    /\ pc' = "Interpreting"
    /\ UNCHANGED <<applied, config, userInput, pendingTool, streaming, console, display,
                   sent, execs>>

\* console_out.error(err instanceof Error ? err.message : String(err)),
\* console.error(err) in the agents that do not print through console_out
FatalError(k, err) ==
    IF k \in ConsoleKinds \cup ReasoningKinds
    THEN [op |-> "error", text |-> ErrMsg(err)]
    ELSE [op |-> "console.error", err |-> err]

\* the catch block falling through to the next iteration of the outer loop
BackToPrompt == "AwaitingInput"

\* where run() goes once the catch block has reported the error: return
AfterFatal == "Returned"

\* the failed call made again for the conversation as it is
RetriedTransport(err) ==
    /\ pc \in {"Sending", "Streaming"}
    /\ pc = "Streaming" => kind \in StreamKinds
    /\ Len(sent) < MaxCalls
    /\ display' = Append(display, FatalError(kind, err))
    /\ sent' = Append(sent, runInference(conversation, tools))
    /\ UNCHANGED <<applied, config, pc, userInput, conversation, loop, streaming, console,
                   execs, nextId>>

\* runInference / stream.finalMessage() throws:
\* catch (err) { console_out.error(...); return; }
TransportFail(err) ==
    /\ pc \in {"Sending", "Streaming"}
    /\ pc = "Streaming" => kind \in StreamKinds
    /\ display' = Append(display, FatalError(kind, err))
    /\ pc' = AfterFatal
    /\ UNCHANGED <<applied, config, userInput, conversation, loop, streaming, console,
                   sent, execs, nextId>>

(***************************************************************************)
(* The streaming agents: stream.on("streamEvent", ...) and finalMessage(). *)
(***************************************************************************)
\* the stream starts delivering the events of the content the model answers
StreamOpen(content, events) ==
    /\ pc = "Sending"
    /\ kind \in StreamKinds
    /\ incoming' = content
    /\ stream' = events
    /\ delivered' = <<>>
    /\ nextId' = nextId + Len(content)
    /\ pc' = "Streaming"
    /\ UNCHANGED <<applied, config, userInput, conversation, loop, isThinking,
                   reasoningState, console, display, sent, execs>>

\* Agent.handleStreamEvent of the extended-thinking agent and the inline
\* handler of the streaming agent: the display calls made for one event
\* and the flags after it
handleStreamEvent(k, event, thinking, started, active) ==
    CASE event.type = "content_block_start" /\ event.block = "thinking" /\ k = Ch7 ->
            [out |-> <<thinkingStart>>, isThinking |-> TRUE,
             claudeTurnStarted |-> started, thinkingBlockActive |-> TRUE]
      [] event.type = "content_block_start" /\ event.block = "tool_use" /\ k = Ch6 ->
            [out |-> <<toolStart(event.name, Undefined)>>, isThinking |-> thinking,
             claudeTurnStarted |-> started, thinkingBlockActive |-> active]
      [] event.type = "content_block_delta" /\ event.delta = "thinking_delta" /\ k = Ch7 ->
            [out |-> <<thinkingStream(event.text)>>, isThinking |-> thinking,
             claudeTurnStarted |-> started, thinkingBlockActive |-> active]
      [] event.type = "content_block_delta" /\ event.delta = "text_delta" ->
            [out |-> <<claudeStream(event.text, started)>>, isThinking |-> thinking,
             claudeTurnStarted |-> TRUE, thinkingBlockActive |-> active]
      [] event.type = "content_block_stop" /\ k = Ch7 /\ thinking ->
            [out |-> <<thinkingEnd(active)>>, isThinking |-> FALSE,
             claudeTurnStarted |-> started, thinkingBlockActive |-> FALSE]
      [] OTHER ->
            [out |-> <<>>, isThinking |-> thinking,
             claudeTurnStarted |-> started, thinkingBlockActive |-> active]

\* event.content_block?.type === type : content_block_stop events carry
\* no content_block
HasBlockType(event, type) == "block" \in DOMAIN event /\ event.block = type

\* a handler that shows nothing
ReasoningEventsUnshown(event, rs, collapse, newStage) == [out |-> <<>>, rs |-> rs]

\* Agent.handleStreamEvent of the reasoning agent: the display calls made for
\* one event and this.reasoningState after it; newStage is what
\* detectReasoningStage answers for the accumulated text
handleReasoningStreamEvent(event, rs, collapse, newStage) ==
    CASE event.type = "content_block_start" /\ event.block = "thinking"
              /\ enableThinking /\ ~rs.isActive ->
            [out |-> IF ~collapse THEN <<reasoningStart(ANALYZING, FALSE)>> ELSE <<>>,
             rs |-> [isActive |-> TRUE, currentStage |-> ANALYZING, accumulatedText |-> ""]]
      [] event.type = "content_block_start" /\ event.block = "tool_use" ->
            [out |-> <<reasoningToolStart(event.name)>>, rs |-> rs]
      [] event.type = "content_block_delta" /\ event.delta = "thinking_delta"
              /\ enableThinking /\ rs.isActive ->
            [out |-> (IF newStage # rs.currentStage /\ ~collapse
                      THEN <<reasoningEnd, reasoningStart(newStage, FALSE)>>
                      ELSE <<>>)
                     \o (IF ~collapse /\ newStage # "null"
                         THEN <<reasoningThinkingStream(event.text, newStage)>>
                         ELSE <<>>),
             rs |-> [rs EXCEPT !.accumulatedText = @ \o event.text,
                               !.currentStage = newStage]]
      [] event.type = "content_block_delta" /\ event.delta = "text_delta" ->
            [out |-> <<reasoningClaudeStream(event.text)>>, rs |-> rs]
      [] event.type = "content_block_stop" /\ rs.isActive
              /\ HasBlockType(event, "thinking") ->
            [out |-> IF collapse
                     THEN <<reasoningCollapsed(slice(rs.accumulatedText, SummaryLength) \o "...")>>
                     ELSE <<reasoningEnd>>,
             rs |-> IdleReasoning]
      [] OTHER -> [out |-> <<>>, rs |-> rs]

\* a handler that starts the executor as soon as a tool_use block opens
EagerStreamEvent ==
    /\ pc = "Streaming"
    /\ stream # <<>>
    /\ kind \notin ReasoningKinds
    /\ LET after == handleStreamEvent(kind, Head(stream), isThinking,
                                      claudeTurnStarted, thinkingBlockActive)
       IN /\ display' = display \o after.out
          /\ isThinking' = after.isThinking
          /\ claudeTurnStarted' = after.claudeTurnStarted
          /\ thinkingBlockActive' = after.thinkingBlockActive
    /\ execs' = (IF Head(stream).type = "content_block_start"
                        /\ Head(stream).block = "tool_use"
                        /\ FindTool(tools, Head(stream).name) # 0
                 THEN Append(execs, [at |-> Len(conversation) + 1, blk |-> 1,
                                     tool |-> FindTool(tools, Head(stream).name),
                                     input |-> "", how |-> "returned",
                                     value |-> Str("")])
                 ELSE execs)
    /\ stream' = Tail(stream)
    /\ delivered' = Append(delivered, Head(stream))
    /\ UNCHANGED <<applied, config, pc, userInput, conversation, loop, incoming,
                   reasoningState, sent, nextId>>

\* one event is delivered to the handler
StreamEvent ==
    /\ pc = "Streaming"
    /\ stream # <<>>
    /\ kind \notin ReasoningKinds
    /\ LET after == handleStreamEvent(kind, Head(stream), isThinking,
                                      claudeTurnStarted, thinkingBlockActive)
       IN /\ display' = display \o after.out
          /\ isThinking' = after.isThinking
          /\ claudeTurnStarted' = after.claudeTurnStarted
          /\ thinkingBlockActive' = after.thinkingBlockActive
    /\ stream' = Tail(stream)
    /\ delivered' = Append(delivered, Head(stream))
    /\ UNCHANGED <<applied, config, pc, userInput, conversation, loop, incoming,
                   reasoningState, sent, execs, nextId>>

\* one event is delivered to the handler of the reasoning agent
ReasoningStreamEvent(newStage) ==
    /\ pc = "Streaming"
    /\ stream # <<>>
    /\ kind \in ReasoningKinds
    /\ LET after == handleReasoningStreamEvent(Head(stream), reasoningState,
                                               collapseReasoning, newStage)
       IN /\ display' = display \o after.out
          /\ reasoningState' = after.rs
    /\ stream' = Tail(stream)
    /\ delivered' = Append(delivered, Head(stream))
    /\ UNCHANGED <<applied, config, pc, userInput, conversation, loop, incoming,
                   isThinking, console, sent, execs, nextId>>

\* message = await stream.finalMessage();
\* conversation.push({role: "assistant", content: message.content});
FinalMessage ==
    /\ pc = "Streaming"
    /\ stream = <<>>
    /\ conversation' = Append(conversation, AssistantMessage(incoming))
    /\ message' = incoming
    /\ hasToolUse' = FALSE
    /\ toolsResults' = NewToolsResults(toolsResults)
    /\ blk' = 1
    /\ pc' = "Interpreting"
    /\ delivered' = <<>>
    /\ UNCHANGED <<applied, config, userInput, pendingTool, stream, incoming, isThinking,
                   reasoningState, console, display, sent, execs, nextId>>

(***************************************************************************)
(* Agent.run, the for-loop over message.content.                           *)
(***************************************************************************)
AtBlock == pc = "Interpreting" /\ blk \in 1..Len(message)

\* a for-loop body with a text branch in every agent
IsTextBranchEverywhere(k, block) == block.type = "text"

\* the branches of the for-loop body: the streaming agents have no text branch,
\* the chapter-1 agent has no tool_use branch
IsTextBranch(k, block) == block.type = "text" /\ k \notin StreamKinds
\* a for-loop body with the tool_use branch missing from the streaming agents
ToolBranchUnlessStreaming(k, block) ==
    block.type = "tool_use" /\ k \in ToolKinds \ StreamKinds
IsToolBranch(k, block) == block.type = "tool_use" /\ k \in ToolKinds

\* a text block kept back instead of shown when the loop reaches it
TextKeptBack ==
    /\ AtBlock
    /\ IsTextBranch(kind, message[blk])
    /\ blk' = blk + 1
    /\ UNCHANGED <<applied, config, pc, userInput, conversation, message, hasToolUse,
                   toolsResults, pendingTool, streaming, console, display,
                   sent, execs, nextId>>

\* if (block.type === "text") console_out.claude(block.text)
DisplayText ==
    /\ AtBlock
    /\ IsTextBranch(kind, message[blk])
    /\ display' = Append(display,
            IF kind \in ConsoleKinds
            THEN claude(message[blk].text, claudeTurnStarted)
            ELSE consoleLog("Claude: " \o message[blk].text))
    /\ claudeTurnStarted' = (IF kind \in ConsoleKinds THEN TRUE ELSE claudeTurnStarted)
    /\ blk' = blk + 1
    /\ UNCHANGED <<applied, config, pc, userInput, conversation, message, hasToolUse,
                   toolsResults, pendingTool, streaming, thinkingBlockActive,
                   sent, execs, nextId>>

\* a loop body that does not move on from a block it has no branch for
SkipBlockAgain ==
    /\ AtBlock
    /\ ~IsTextBranch(kind, message[blk])
    /\ ~IsToolBranch(kind, message[blk])
    /\ UNCHANGED vars

\* a block no branch of the loop body handles
SkipBlock ==
    /\ AtBlock
    /\ ~IsTextBranch(kind, message[blk])
    /\ ~IsToolBranch(kind, message[blk])
    /\ blk' = blk + 1
    /\ UNCHANGED <<applied, config, pc, userInput, conversation, message, hasToolUse,
                   toolsResults, pendingTool, streaming, console, display,
                   sent, execs, nextId>>

\* the executor started without awaiting it: the loop goes on to the next block
DispatchWithoutAwait ==
    /\ AtBlock
    /\ IsToolBranch(kind, message[blk])
    /\ FindTool(tools, message[blk].name) # 0
    /\ hasToolUse' = TRUE
    /\ pendingTool' = FindTool(tools, message[blk].name)
    /\ execs' = Append(execs, [at |-> Len(conversation), blk |-> blk,
                               tool |-> pendingTool', input |-> message[blk].input,
                               how |-> "pending", value |-> Undefined])
    /\ blk' = blk + 1
    /\ UNCHANGED <<applied, config, pc, userInput, conversation, message, toolsResults,
                   streaming, console, display, sent, nextId>>

\* the tool_use branch when a registered tool has the name:
\* (console_out.toolStart(toolToUse, block.input);) await tool.Execute(block.input)
DispatchTool ==
    /\ AtBlock
    /\ IsToolBranch(kind, message[blk])
    /\ FindTool(tools, message[blk].name) # 0
    /\ hasToolUse' = TRUE
    /\ pendingTool' = FindTool(tools, message[blk].name)
    /\ execs' = Append(execs, [at |-> Len(conversation), blk |-> blk,
                               tool |-> pendingTool', input |-> message[blk].input,
                               how |-> "pending", value |-> Undefined])
    /\ display' = (IF kind = Ch7
                   THEN Append(display, toolStart(message[blk].name, Str(message[blk].input)))
                   ELSE display)
    /\ pc' = "Executing"
    /\ UNCHANGED <<applied, config, userInput, conversation, message, blk, toolsResults,
                   streaming, console, sent, nextId>>

\* a push that flags an empty payload as an error
PushResultFlaggingEmpty(block, toolErrorMsg, toolResult) ==
    ToolResult(block.id, JsOr(toolErrorMsg, toolResult),
               ~Truthy(JsOr(toolErrorMsg, toolResult)))

\* toolsResults.push({type: "tool_result", tool_use_id: block.id,
\*                    content: toolErrorMsg || toolResult, is_error: !!toolErrorMsg})
PushResult(block, toolErrorMsg, toolResult) ==
    ToolResult(block.id, JsOr(toolErrorMsg, toolResult), Truthy(toolErrorMsg))

\* chapter4: content: toolError ? toolError.message : toolResult, is_error: !!toolError
PushTupleResult(block, toolError, toolResult) ==
    ToolResult(block.id,
               IF Truthy(toolError) THEN Str(toolError.message) ELSE toolResult,
               Truthy(toolError))

\* `Tool not found: ${toolToUse}`
NotFoundMsg(toolToUse) == "Tool not found: " \o toolToUse

\* if (!toolFound) { toolErrorMsg = `Tool not found: ${toolToUse}`; ... } and the push
ToolNotFound ==
    /\ AtBlock
    /\ IsToolBranch(kind, message[blk])
    /\ FindTool(tools, message[blk].name) = 0
    /\ hasToolUse' = TRUE
    /\ toolsResults' = Append(toolsResults,
            IF kind \in TupleKinds
            THEN PushTupleResult(message[blk], Err(NotFoundMsg(message[blk].name)), Undefined)
            ELSE PushResult(message[blk], Str(NotFoundMsg(message[blk].name)), Undefined))
    /\ display' = (CASE kind \in TupleKinds ->
                            Append(display, consoleLog("error: Tool not found: " \o message[blk].name))
                     [] kind \in StreamKinds ->
                            Append(display, toolEnd(message[blk].name, FALSE))
                     [] OTHER -> display)
    /\ blk' = blk + 1
    /\ UNCHANGED <<applied, config, pc, userInput, conversation, message, pendingTool,
                   streaming, console, sent, execs, nextId>>

Completed(how, value) ==
    [execs EXCEPT ![Len(execs)] = [@ EXCEPT !.how = how, !.value = value]]

\* an executor that is handed the conversation and pushes its output itself
ExecutorReturnAppending(text) ==
    /\ pc = "Executing"
    /\ kind \in ThrowKinds
    /\ conversation' = Append(conversation, UserText(text))
    /\ toolsResults' = Append(toolsResults, PushResult(message[blk], Undefined, Str(text)))
    /\ execs' = Completed("returned", Str(text))
    /\ pendingTool' = 0
    /\ blk' = blk + 1
    /\ pc' = "Interpreting"
    /\ UNCHANGED <<applied, config, userInput, message, hasToolUse, streaming, console,
                   display, sent, nextId>>

\* try { toolResult = await tool.Execute(block.input); (console_out.toolEnd(toolToUse, true);) }
ExecutorReturn(text) ==
    /\ pc = "Executing"
    /\ kind \in ThrowKinds
    /\ toolsResults' = Append(toolsResults, PushResult(message[blk], Undefined, Str(text)))
    /\ display' = (IF kind \in StreamKinds
                   THEN Append(display, toolEnd(message[blk].name, TRUE))
                   ELSE display)
    /\ execs' = Completed("returned", Str(text))
    /\ pendingTool' = 0
    /\ blk' = blk + 1
    /\ pc' = "Interpreting"
    /\ UNCHANGED <<applied, config, userInput, conversation, message, hasToolUse,
                   streaming, console, sent, nextId>>

\* catch (err) { toolErrorMsg = err instanceof Error ? err.message : String(err);
\*               (console_out.toolEnd(toolToUse, false);) }
\* When String(err) throws inside this catch block the TypeError reaches the
\* catch block of the turn, which reports it and returns.
ExecutorRaise(err) ==
    /\ pc = "Executing"
    /\ kind \in ThrowKinds
    /\ execs' = Completed("raised", err)
    /\ pendingTool' = 0
    /\ IF ErrMsgThrows(err)
       THEN /\ display' = Append(display, FatalError(kind, ConversionError))
            /\ pc' = AfterFatal
            /\ UNCHANGED <<blk, toolsResults>>
       ELSE /\ toolsResults' = Append(toolsResults,
                                     PushResult(message[blk], Str(ErrMsg(err)), Undefined))
            /\ display' = (IF kind \in StreamKinds
                           THEN Append(display, toolEnd(message[blk].name, FALSE))
                           ELSE display)
            /\ blk' = blk + 1
            /\ pc' = "Interpreting"
    /\ UNCHANGED <<applied, config, userInput, conversation, message, hasToolUse,
                   streaming, console, sent, nextId>>

\* [toolError, toolResult] = await tool.Execute(block.input) : the promise fulfils
ExecutorResolve(toolError, toolResult) ==
    /\ pc = "Executing"
    /\ kind \in TupleKinds
    /\ toolsResults' = Append(toolsResults, PushTupleResult(message[blk], toolError, toolResult))
    /\ display' = (IF Truthy(toolError)
                   THEN Append(display, consoleLog("error: " \o toolError.message))
                   ELSE display)
    /\ execs' = Completed("resolved", IF Truthy(toolError) THEN toolError ELSE toolResult)
    /\ pendingTool' = 0
    /\ blk' = blk + 1
    /\ pc' = "Interpreting"
    /\ UNCHANGED <<applied, config, userInput, conversation, message, hasToolUse,
                   streaming, console, sent, nextId>>

\* the same await when the promise rejects: nothing catches it before the
\* catch block of the turn, which reports it and returns
ExecutorReject(err) ==
    /\ pc = "Executing"
    /\ kind \in TupleKinds
    /\ execs' = Completed("rejected", err)
    /\ display' = Append(display, FatalError(kind, err))
    /\ pendingTool' = 0
    /\ pc' = AfterFatal
    /\ UNCHANGED <<applied, config, userInput, conversation, message, blk, hasToolUse,
                   toolsResults, streaming, console, sent, nextId>>

(***************************************************************************)
(* Agent.run, after the for-loop.                                          *)
(***************************************************************************)
AfterBlocks == pc = "Interpreting" /\ blk > Len(message)

\* the break left out
AlwaysContinues(toolUseSeen) == TRUE

\* if (!hasToolUse) break : whether the turn goes on with a continuation call
TurnContinues(toolUseSeen) == toolUseSeen

\* a turn end that shows a placeholder for a response without content
FinishTurnShowingPlaceholder ==
    /\ AfterBlocks
    /\ ~TurnContinues(hasToolUse)
    /\ display' = (IF message = <<>>
                   THEN Append(display, consoleLog("(no response)"))
                   ELSE display)
    /\ claudeTurnStarted' = FALSE
    /\ thinkingBlockActive' = FALSE
    /\ reasoningState' = IdleReasoning
    /\ pc' = "AwaitingInput"
    /\ UNCHANGED <<applied, config, userInput, conversation, loop, stream, incoming,
                   isThinking, delivered, sent, execs, nextId>>

\* if (!hasToolUse) { console_out.finishClaudeTurn(); break; }
\* (reasoning agent: if (this.reasoningState.isActive) { reasoningEnd();
\*  resetReasoningState(); } console_reasoning.finishClaudeTurn(); break;)
FinishTurn ==
    /\ AfterBlocks
    /\ ~TurnContinues(hasToolUse)
    /\ display' = (CASE kind \in ConsoleKinds ->
                            Append(display, finishClaudeTurn(claudeTurnStarted))
                     [] kind \in ReasoningKinds ->
                            display \o (IF reasoningState.isActive
                                        THEN <<reasoningEnd>> ELSE <<>>)
                                    \o <<reasoningFinishClaudeTurn>>
                     [] OTHER -> display)
    /\ claudeTurnStarted' = (IF kind \in ConsoleKinds THEN FALSE ELSE claudeTurnStarted)
    /\ thinkingBlockActive' = (IF kind \in ConsoleKinds THEN FALSE ELSE thinkingBlockActive)
    /\ reasoningState' = (IF kind \in ReasoningKinds THEN IdleReasoning ELSE reasoningState)
    /\ pc' = "AwaitingInput"
    /\ UNCHANGED <<applied, config, userInput, conversation, loop, stream, incoming,
                   isThinking, delivered, sent, execs, nextId>>

\* the tool results written over the last message instead of pushed after it
ReplacingContinue ==
    /\ AfterBlocks
    /\ TurnContinues(hasToolUse)
    /\ Len(sent) < MaxCalls
    /\ conversation' = [conversation EXCEPT ![Len(conversation)] = ToolResultMessage(toolsResults)]
    /\ sent' = Append(sent, runInference(conversation', tools))
    /\ pc' = "Sending"
    /\ UNCHANGED <<applied, config, userInput, loop, streaming, console, display, execs,
                   nextId>>

\* conversation.push({role: "user", content: toolsResults});
\* message = await this.runInference(conversation);
ContinueTurn ==
    /\ AfterBlocks
    /\ TurnContinues(hasToolUse)
    /\ Len(sent) < MaxCalls
    /\ conversation' = Append(conversation, ToolResultMessage(toolsResults))
    /\ sent' = Append(sent, runInference(conversation', tools))
    /\ pc' = "Sending"
    /\ UNCHANGED <<applied, config, userInput, loop, streaming, console, display, execs,
                   nextId>>

(***************************************************************************)
(* utils: wrapErr. A promise is given by how it settles.                   *)
(***************************************************************************)
Fulfilled(v) == [how |-> "fulfilled", value |-> v]
Rejected(e) == [how |-> "rejected", value |-> e]
\* try { const val = await p; return [undefined, val]; }
\* catch (err) { const error = err instanceof Error ? err : new Error(String(err));
\*               return [error, undefined]; }
\* as the promise the async function returns: what String(err) throws inside
\* the catch block is not caught and rejects the promise
wrapErr(p) ==
    CASE p.how = "fulfilled" -> Fulfilled(<<Undefined, p.value>>)
      [] p.value.t = "Error" -> Fulfilled(<<p.value, Undefined>>)
      [] StringThrows(p.value) -> Rejected(ConversionError)
      [] OTHER -> Fulfilled(<<Err(JsString(p.value)), Undefined>>)

\* the promises wrapErr is called with
SettledPromises ==
    {Fulfilled(v) : v \in {Str("a"), Str("b"), Str(""), Undefined}}
    \cup {Rejected(e) : e \in {Err("boom"), Err("EOF"), Err(""), Str("oops"),
                               Str(""), Undefined, NullPrototypeObject}}

\* one call of wrapErr
WrapErrCall(p) ==
    /\ Len(applied) < MaxApplied
    /\ applied' = Append(applied, [fn |-> "wrapErr", in |-> p, out |-> wrapErr(p)])
    /\ UNCHANGED agent

WrapInit == Init /\ kind = Ch4
WrapNext == \E p \in SettledPromises : WrapErrCall(p)
WrapSpec == WrapInit /\ [][WrapNext]_vars

(***************************************************************************)
(* The chapter-3 agent with its one tool: ListFiles over what readdir      *)
(* gives.                                                                  *)
(***************************************************************************)
\* files.join("\n")
RECURSIVE Join(_)
Join(files) ==
    CASE files = <<>> -> ""
      [] Len(files) = 1 -> files[1]
      [] OTHER -> files[1] \o "\n" \o Join(Tail(files))

\* an executor that lets the failure of readdir through
ListFilesRethrowing(read) ==
    IF read.how = "fulfilled" THEN Fulfilled(Str(Join(read.value))) ELSE read

\* try { const files = await readdir(args.path); return files.join("\n"); }
\* catch (err: any) { return `Error listing files: ${err.message}`; }
\* as the promise the async function returns, read being how readdir settles
ListFiles(read) ==
    IF read.how = "fulfilled"
    THEN Fulfilled(Str(Join(read.value)))
    ELSE Fulfilled(Str("Error listing files: " \o read.value.message))

\* how readdir settles: the names of the directory, or an Error of fs
ReaddirOutcomes ==
    {Fulfilled(files) : files \in {<<>>, <<"a.txt">>, <<"a.txt", "b.txt">>}}
    \cup {Rejected(Err(m)) : m \in {"ENOENT", "EACCES"}}

\* try { toolResult = await tool.Execute(block.input); }
\* catch (err) { toolErrorMsg = err instanceof Error ? err.message : String(err); }
\* and the push, for the executor ListFiles
ListFilesSettles(read) ==
    /\ pc = "Executing"
    /\ kind = Ch3
    /\ LET settled == ListFiles(read)
       IN /\ toolsResults' = Append(toolsResults,
                IF settled.how = "fulfilled"
                THEN PushResult(message[blk], Undefined, settled.value)
                ELSE PushResult(message[blk], Str(ErrMsg(settled.value)), Undefined))
          /\ execs' = Completed(IF settled.how = "fulfilled" THEN "returned" ELSE "raised",
                                settled.value)
          /\ applied' = Append(applied, [fn |-> "ListFiles", in |-> read, out |-> settled])
    /\ pendingTool' = 0
    /\ blk' = blk + 1
    /\ pc' = "Interpreting"
    /\ UNCHANGED <<config, userInput, conversation, message, hasToolUse,
                   streaming, console, display, sent, nextId>>

ListFilesInit == Init /\ kind = Ch3

ListFilesNext ==
    \/ \E line \in Lines : ReadEmptyLine(line)
    \/ \E line \in Lines : SubmitTurn(line)
    \/ EndOfInput
    \/ \E content \in Responses(kind, tools, nextId, MaxExecs - Len(execs)) : TransportReturn(content)
    \/ \E err \in TransportFaults : TransportFail(err)
    \/ DisplayText
    \/ DispatchTool
    \/ ToolNotFound
    \/ \E read \in ReaddirOutcomes : ListFilesSettles(read)
    \/ FinishTurn
    \/ ContinueTurn

ListFilesSpec == ListFilesInit /\ [][ListFilesNext]_vars

(***************************************************************************)
(* 4-agent-tool-orchestration/index.ts: main() and the handler on the      *)
(* promise it returns. setup is how the statements before the try block    *)
(* end (new Command, new Anthropic, createInterface, new Agent), run how   *)
(* agent.run() settles.                                                    *)
(***************************************************************************)
\* console_out.error(err instanceof Error ? err.message : String(err))
Reported(err) == [op |-> "error", text |-> ErrMsg(err)]

\* the process after main() and main().catch(...): what was written to the
\* error display and the exit status (0 when the process ends without
\* process.exit being called)
main(setup, run) ==
    CASE setup.how = "rejected" ->
            [display |-> <<Reported(setup.value)>>, closed |-> FALSE, status |-> 1]
      [] run.how = "rejected" ->
            [display |-> <<Reported(run.value)>>, closed |-> TRUE, status |-> 0]
      [] OTHER ->
            [display |-> <<>>, closed |-> TRUE, status |-> 0]

\* what can be thrown before the try block and what agent.run() can reject with
SetupOutcomes ==
    {Fulfilled(Undefined)} \cup {Rejected(e) : e \in {Err("missing apiKey"), Str("oops")}}
RunOutcomes ==
    {Fulfilled(Undefined)} \cup {Rejected(e) : e \in {Err("boom"), Err(""), Str("oops"), Undefined}}

\* one start of the program
MainCall(setup, run) ==
    /\ Len(applied) < MaxApplied
    /\ applied' = Append(applied, [fn |-> "main", setup |-> setup, run |-> run,
                                   out |-> main(setup, run)])
    /\ UNCHANGED agent

MainInit == Init /\ kind = Ch3
MainNext == \E setup \in SetupOutcomes, run \in RunOutcomes : MainCall(setup, run)
MainSpec == MainInit /\ [][MainNext]_vars

(***************************************************************************)
(* The non-streaming tool agents constructed with a tool list in which     *)
(* names repeat and differ by case only.                                   *)
(***************************************************************************)
ListFilesCapitalized == [name |-> "List_Files"]
\* the tool lists the agents are constructed with
RegisteredLists ==
    {<<ListFilesCapitalized, ListFilesToolDefinition, ListFilesToolDefinition>>,
     <<ListFilesToolDefinition, ListFilesCapitalized, ListFilesToolDefinition>>,
     <<ListFilesCapitalized, ReadFileToolDefinition>>}

LookupInit ==
    /\ kind \in {Ch3, Ch4}
    /\ tools \in RegisteredLists
    /\ enableThinking = FALSE
    /\ collapseReasoning = FALSE
    /\ pc = "AwaitingInput"
    /\ userInput = ""
    /\ conversation = <<>>
    /\ message = <<>>
    /\ blk = 0
    /\ hasToolUse = FALSE
    /\ toolsResults = <<>>
    /\ pendingTool = 0
    /\ stream = <<>>
    /\ incoming = <<>>
    /\ isThinking = FALSE
    /\ reasoningState = IdleReasoning
    /\ delivered = <<>>
    /\ claudeTurnStarted = FALSE
    /\ thinkingBlockActive = FALSE
    /\ display = <<>>
    /\ sent = <<>>
    /\ execs = <<>>
    /\ nextId = 0
    /\ applied = <<>>

LookupNext ==
    \/ \E line \in Lines : ReadEmptyLine(line)
    \/ \E line \in Lines : SubmitTurn(line)
    \/ EndOfInput
    \/ \E content \in Responses(kind, tools, nextId, MaxExecs - Len(execs)) : TransportReturn(content)
    \/ \E err \in TransportFaults : TransportFail(err)
    \/ DisplayText
    \/ DispatchTool
    \/ ToolNotFound
    \/ \E text \in ReturnedTexts : ExecutorReturn(text)
    \/ \E err \in RaisedValues : ExecutorRaise(err)
    \/ \E m \in TupleErrors : ExecutorResolve(Err(m), Undefined)
    \/ \E text \in ReturnedTexts : ExecutorResolve(Undefined, Str(text))
    \/ \E err \in RejectedValues : ExecutorReject(err)
    \/ FinishTurn
    \/ ContinueTurn

LookupSpec == LookupInit /\ [][LookupNext]_vars

(***************************************************************************)
(* Vocabulary of the properties.                                           *)
(***************************************************************************)
IsToolUse(block) == block.type = "tool_use"
ToolUses(content) == SelectSeq(content, IsToolUse)
IdsOf(uses) == [i \in 1..Len(uses) |-> uses[i].id]
ResultIds(results) == [i \in 1..Len(results) |-> results[i].tool_use_id]
Last(seq) == seq[Len(seq)]
IsAssistant(m) == m.role = "assistant"
IsToolResults(m) == m.role = "user" /\ m.content.t = "blocks"
\* the blocks of the response the for-loop has already gone through
Processed == SubSeq(message, 1, blk - 1)


\* the response in conversation[j] is no longer being interpreted
Interpreted(j) == j < Len(conversation) \/ pc \notin {"Interpreting", "Executing"}

(***************************************************************************)
(* C1: in the tool-enabled loops a response with N tool_use blocks yields  *)
(* exactly N tool_result blocks, the k-th carrying the id of its k-th      *)
(* tool_use block: while a response is interpreted toolsResults answers    *)
(* exactly the tool_use blocks gone through so far (nothing is carried     *)
(* over from an earlier response); once a response with N >= 1 tool_use    *)
(* blocks is no longer being interpreted the conversation holds, right     *)
(* after it, the user message with its N results in order; and so does     *)
(* the conversation given to any transport call.                           *)
(***************************************************************************)
C1_ToolResultsAnswerToolUses ==
    /\ (kind \in ToolKinds /\ pc = "Interpreting")
            => ResultIds(toolsResults) = IdsOf(ToolUses(Processed))
    /\ (kind \in ToolKinds /\ pc = "Executing")
            => ResultIds(toolsResults) = IdsOf(ToolUses(Processed))
    /\ \A j \in 1..Len(conversation) :
          (/\ kind \in ToolKinds
           /\ IsAssistant(conversation[j])
           /\ ToolUses(conversation[j].content.blocks) # <<>>
           /\ Interpreted(j))
              => /\ j < Len(conversation)
                 /\ IsToolResults(conversation[j + 1])
                 /\ ResultIds(conversation[j + 1].content.blocks)
                      = IdsOf(ToolUses(conversation[j].content.blocks))
    /\ \A c \in 1..Len(sent) :
          LET conv == sent[c].messages
          IN \A j \in 1..Len(conv) :
                (IsAssistant(conv[j]) /\ ToolUses(conv[j].content.blocks) # <<>>)
                    => /\ j < Len(conv)
                       /\ IsToolResults(conv[j + 1])
                       /\ ResultIds(conv[j + 1].content.blocks)
                            = IdsOf(ToolUses(conv[j].content.blocks))

(***************************************************************************)
(* C2: after a response without tool_use blocks the turn ends: the next    *)
(* transport call is made only by reading a new non-empty line, which is   *)
(* appended as a user message; interpreting the response makes no call.    *)
(***************************************************************************)
C2_NoToolUseEndsTurn ==
    [][(/\ conversation # <<>>
        /\ IsAssistant(Last(conversation))
        /\ ToolUses(Last(conversation).content.blocks) = <<>>
        /\ sent' # sent)
            => /\ pc = "AwaitingInput"
               /\ userInput' # ""
               /\ conversation' = Append(conversation, UserText(userInput'))]_vars

\* a second call has been made after a response without tool_use blocks
C2_Witness ==
    /\ Len(sent) = 2
    /\ pc = "Sending"
    /\ IsAssistant(conversation[2])
    /\ ToolUses(conversation[2].content.blocks) = <<>>
    /\ conversation[1].content.t = "string"

\* the transport calls made with the conversation as it stands right after
\* message j, i.e. the calls that answer message j
CallsAfter(j) == {c \in 1..Len(sent) : Len(sent[c].messages) = j + 1}
\* an executor invocation of the response being interpreted that raised
RaisedHere ==
    \E e \in 1..Len(execs) : execs[e].how = "raised" /\ execs[e].at = Len(conversation)
\* no registered tool has the name
NoToolNamed(name) == \A i \in 1..Len(tools) : tools[i].name # name

(***************************************************************************)
(* C3: for every response with at least one tool_use block at most one     *)
(* transport call answers it, that call is given the conversation ending   *)
(* with the single user message that holds one result per tool_use block,  *)
(* and once the response is no longer being interpreted exactly one such   *)
(* call has been made.                                                     *)
(***************************************************************************)
C3_OneContinuationPerToolResponse ==
    \A j \in 1..Len(conversation) :
        (IsAssistant(conversation[j]) /\ ToolUses(conversation[j].content.blocks) # <<>>)
            => /\ Cardinality(CallsAfter(j)) <= 1
               /\ \A c \in CallsAfter(j) :
                     /\ IsToolResults(sent[c].messages[j + 1])
                     /\ ResultIds(sent[c].messages[j + 1].content.blocks)
                            = IdsOf(ToolUses(conversation[j].content.blocks))
               /\ Interpreted(j) => Cardinality(CallsAfter(j)) = 1

(***************************************************************************)
(* C4: a line read at the prompt is either non-empty, and then exactly one *)
(* user message with the raw text is appended and the transport is called  *)
(* with the conversation that ends with it, or empty, and then nothing is  *)
(* appended, no call is made and the loop is at the prompt again; the only *)
(* other step at the prompt is the end of input.                           *)
(***************************************************************************)
C4_OneUserMessagePerLine ==
    [][pc = "AwaitingInput" =>
          \/ /\ userInput' # ""
             /\ conversation' = Append(conversation, UserText(userInput'))
             /\ sent' = Append(sent, runInference(conversation', tools))
             /\ pc' = "Sending"
          \/ /\ userInput' = ""
             /\ conversation' = conversation
             /\ sent' = sent
             /\ pc' = "AwaitingInput"
          \/ /\ pc' = "Ended"
             /\ UNCHANGED <<userInput, conversation, sent>>]_vars

\* an empty line has been read at the prompt after a completed turn
C4_Witness ==
    /\ pc = "AwaitingInput"
    /\ userInput = ""
    /\ Len(conversation) = 2
    /\ Len(sent) = 1
    /\ conversation[1] = UserText("hi")

(***************************************************************************)
(* C5: when the executor of a registered tool raised for the block just    *)
(* gone through, the result pushed for the block has the block's id, the   *)
(* failure message (err.message of an Error, String(err) otherwise) as     *)
(* payload and is_error true, whatever was raised.                         *)
(***************************************************************************)
C5_RaisedBecomesErrorResult ==
    (/\ kind \in ThrowKinds
     /\ pc = "Interpreting"
     /\ execs # <<>>
     /\ Last(execs).how = "raised"
     /\ Last(execs).at = Len(conversation)
     /\ Last(execs).blk = blk - 1)
        => Last(toolsResults)
              = ToolResult(message[blk - 1].id, Str(ErrMsg(Last(execs).value)), TRUE)

\* the block the for-loop is at is a tool_use block naming a registered tool
DispatchableBlock == IsToolUse(message[blk]) /\ ~NoToolNamed(message[blk].name)

(***************************************************************************)
(* C6: in the agents that await the executor inside try/catch a failing    *)
(* tool never aborts the turn: whatever the executor does, the loop goes   *)
(* on to the next block with one more result; after an executor raised     *)
(* for a block of the response, a later tool_use block that names a        *)
(* registered tool is still dispatched and the end of the response is      *)
(* followed by the tool-result message and the continuation call; the      *)
(* fatal-error path is entered from a transport call only.                 *)
(***************************************************************************)
C6_FailingToolNeverAbortsTurn ==
    [][(kind \in ThrowKinds) =>
          /\ pc = "Executing"
                => /\ pc' = "Interpreting"
                   /\ blk' = blk + 1
                   /\ Len(toolsResults') = Len(toolsResults) + 1
                   /\ hasToolUse'
                   /\ conversation' = conversation
          /\ (RaisedHere /\ AtBlock /\ DispatchableBlock)
                => /\ pc' = "Executing"
                   /\ Len(execs') = Len(execs) + 1
                   /\ Last(execs').blk = blk
          /\ (RaisedHere /\ AfterBlocks)
                => /\ pc' = "Sending"
                   /\ conversation' = Append(conversation, ToolResultMessage(toolsResults))
                   /\ sent' = Append(sent, runInference(conversation', tools))
          /\ pc' = "Returned" => pc \in {"Sending", "Streaming"}]_vars

\* how the last executor invocation reported a failure, if it did
FailedBy(e) == e.how = "rejected" \/ (e.how = "resolved" /\ e.value.t = "Error")

(***************************************************************************)
(* C7: in the Result-tuple agent a step that completes an executor         *)
(* invocation goes on to the next block of the response, and when the      *)
(* executor failed, by fulfilling with [Error, undefined] or by rejecting, *)
(* exactly one result with is_error true and the message as payload is     *)
(* pushed for the block.                                                   *)
(***************************************************************************)
C7_TupleContainmentEitherWay ==
    [][(kind \in TupleKinds /\ pc = "Executing")
          => /\ pc' = "Interpreting"
             /\ blk' = blk + 1
             /\ hasToolUse'
             /\ FailedBy(Last(execs'))
                   => toolsResults' = Append(toolsResults,
                          ToolResult(message[blk].id,
                                     Str(ErrMsg(Last(execs').value)), TRUE))]_vars

(***************************************************************************)
(* C8: for a tool_use block whose name no registered tool has, the loop    *)
(* pushes the result with the block's id, payload exactly                  *)
(* "Tool not found: <name>" and is_error true, invokes no executor, and    *)
(* goes on to the next block; at the end of a response that held such a    *)
(* block the tool-result message is appended and the continuation call is  *)
(* made.                                                                   *)
(***************************************************************************)
C8_UnregisteredToolBecomesErrorResult ==
    [][(kind \in ToolKinds) =>
          /\ (AtBlock /\ IsToolUse(message[blk]) /\ NoToolNamed(message[blk].name))
                => /\ toolsResults' = Append(toolsResults,
                          ToolResult(message[blk].id,
                                     Str("Tool not found: " \o message[blk].name), TRUE))
                   /\ execs' = execs
                   /\ hasToolUse'
                   /\ blk' = blk + 1
                   /\ pc' = "Interpreting"
                   /\ conversation' = conversation
          /\ (AfterBlocks /\ \E i \in 1..Len(message) :
                                IsToolUse(message[i]) /\ NoToolNamed(message[i].name))
                => /\ pc' = "Sending"
                   /\ conversation' = Append(conversation, ToolResultMessage(toolsResults))
                   /\ sent' = Append(sent, runInference(conversation', tools))]_vars

\* the continuation call has been made with the not-found result of the
\* first block and the result of a dispatched second block
C8_Witness ==
    /\ kind \in ToolKinds
    /\ pc = "Sending"
    /\ Len(sent) = 2
    /\ IsToolResults(Last(conversation))
    /\ Len(Last(conversation).content.blocks) = 2
    /\ Last(conversation).content.blocks[1].content = Str("Tool not found: delete_universe")
    /\ Last(conversation).content.blocks[1].is_error
    /\ Len(execs) = 1
    /\ execs[1].blk = 2

(***************************************************************************)
(* C9: a step that leaves a transport call without a response shows the    *)
(* fault on the error display and takes the loop back to the prompt.       *)
(***************************************************************************)
C9_TransportFaultEndsTurnOnly ==
    [][(pc \in {"Sending", "Streaming"} /\ pc' \notin {"Sending", "Streaming", "Interpreting"})
          => /\ Len(display') = Len(display) + 1
             /\ Last(display').op \in {"error", "console.error"}
             /\ pc' = "AwaitingInput"]_vars

(***************************************************************************)
(* C10: the step in which a transport call fails leaves the conversation   *)
(* as it is, ending with the user message the call was made for, and makes *)
(* no call; no transport call is ever made with a conversation an earlier  *)
(* call was already made with.                                             *)
(***************************************************************************)
C10_NoPartialMessageNoRetry ==
    [][/\ (pc \in {"Sending", "Streaming"} /\ Len(display') = Len(display) + 1
                /\ Last(display').op \in {"error", "console.error"})
            => /\ conversation' = conversation
               /\ ~IsAssistant(Last(conversation))
               /\ sent' = sent
       /\ sent' # sent
            => /\ Len(sent') = Len(sent) + 1
               /\ \A c \in 1..Len(sent) : sent[c].messages # Last(sent').messages
       /\ pc = "Returned" => sent' = sent]_vars

\* a continuation call has failed: the conversation ends with the
\* tool-result message and two calls have been made
C10_Witness ==
    /\ pc = "Returned"
    /\ display # <<>>
    /\ Last(display) = FatalError(kind, Err("net"))
    /\ Len(sent) = 2
    /\ Len(conversation) = 3
    /\ IsToolResults(Last(conversation))

\* the roles of a message list alternate user, assistant, ..., user
Alternates(conv) ==
    /\ Len(conv) % 2 = 1
    /\ \A i \in 1..Len(conv) :
          conv[i].role = (IF i % 2 = 1 THEN "user" ELSE "assistant")
\* s is an initial part of t
IsPrefix(s, t) == Len(s) <= Len(t) /\ SubSeq(t, 1, Len(s)) = s

(***************************************************************************)
(* C11: the conversation given to every transport call alternates user,    *)
(* assistant, user, ... and begins and ends with a user-role message.      *)
(***************************************************************************)
C11_SentRolesAlternate ==
    \A c \in 1..Len(sent) : Alternates(sent[c].messages)

\* a continuation call has been made: user, assistant, tool results
C11_Witness ==
    /\ Len(sent) = 2
    /\ Len(sent[2].messages) = 3
    /\ IsToolResults(sent[2].messages[3])
    /\ IsAssistant(sent[2].messages[2])

(***************************************************************************)
(* C12: the conversation is append-only: a step leaves it as it is or      *)
(* appends one message, no message already in it changes, and the list     *)
(* given to a transport call is a prefix of the conversation at every      *)
(* later moment, hence of the list given to every later call.              *)
(***************************************************************************)
C12_ConversationAppendOnly ==
    [][/\ IsPrefix(conversation, conversation')
       /\ Len(conversation') <= Len(conversation) + 1
       /\ IsPrefix(sent, sent')
       /\ \A c \in 1..Len(sent') : IsPrefix(sent'[c].messages, conversation')]_vars

\* two calls have been made and the response to the second is in the
\* conversation, whose third message is the tool-result list of the first
C12_Witness ==
    /\ Len(sent) = 2
    /\ Len(conversation) = 4
    /\ IsToolResults(conversation[3])
    /\ Len(conversation[3].content.blocks) = 2
    /\ Len(toolsResults) = 1

(***************************************************************************)
(* C13: one thing is awaited at a time: only the executor invoked last can *)
(* be running, and it runs exactly while the loop awaits it; executors are *)
(* invoked in the order of the responses and of the blocks in a response;  *)
(* an executor is invoked only when none is running and no transport call  *)
(* is pending, and a transport call is made only when no executor is       *)
(* running and no other call is pending.                                   *)
(***************************************************************************)
C13_OneAwaitAtATime ==
    [][/\ \A e \in 1..Len(execs') :
             (execs'[e].how = "pending") <=> (e = Len(execs') /\ pc' = "Executing")
       /\ \A e \in 1..Len(execs') : \A f \in 1..Len(execs') :
             e < f => \/ execs'[e].at < execs'[f].at
                      \/ execs'[e].at = execs'[f].at /\ execs'[e].blk < execs'[f].blk
       /\ Len(execs') > Len(execs)
             => /\ pc = "Interpreting"
                /\ Len(execs') = Len(execs) + 1
                /\ Last(execs').blk = blk
       /\ sent' # sent => pc \notin {"Executing", "Sending", "Streaming"}
       /\ (pc' = "Executing") = (pendingTool' # 0)]_vars

\* the second executor of a response is running after the first completed
C13_Witness ==
    /\ pc = "Executing"
    /\ Len(execs) = 2
    /\ execs[1].how # "pending"
    /\ execs[1].at = execs[2].at
    /\ execs[2].how = "pending"
    /\ blk = 2

(***************************************************************************)
(* C14: an executor is given the input of its tool_use block and nothing   *)
(* else, and neither invoking it nor its completion changes the            *)
(* conversation: the conversation has the same messages before the         *)
(* invocation, while the executor runs and when its outcome is taken.      *)
(***************************************************************************)
C14_ExecutorsLeaveConversation ==
    [][/\ (pc = "Executing" \/ pc' = "Executing") => conversation' = conversation
       /\ Len(execs') > Len(execs)
             => /\ Last(execs').input = message[blk].input
                /\ Last(execs').tool = FindTool(tools, message[blk].name)
                /\ DOMAIN Last(execs') = {"at", "blk", "tool", "input", "how", "value"}]_vars

\* an executor has completed and the result for its block has been pushed
C14_Witness ==
    /\ pc = "Interpreting"
    /\ execs # <<>>
    /\ Last(execs).how \in {"returned", "resolved"}
    /\ Last(execs).at = Len(conversation)
    /\ Len(toolsResults) = 1

(***************************************************************************)
(* C15: in the streaming agents no event of a stream invokes an executor:  *)
(* while a call is pending or its stream is being delivered the executor   *)
(* invocations stay as they are, and an executor is invoked only from the  *)
(* for-loop over the final message, after every event of the stream has    *)
(* been handled and the final message is the last message of the           *)
(* conversation.                                                           *)
(***************************************************************************)
C15_NoDispatchBeforeFinalMessage ==
    [][(kind \in StreamKinds) =>
          /\ pc \in {"Sending", "Streaming"} => execs' = execs
          /\ Len(execs') > Len(execs)
                => /\ pc = "Interpreting"
                   /\ stream = <<>>
                   /\ message = incoming
                   /\ Last(conversation) = AssistantMessage(message)
                   /\ IsToolUse(message[blk])
                   /\ Last(execs').input = message[blk].input]_vars

\* the streaming agent showed the tool at its content_block_start and invoked
\* the executor only once the stream was over
C15_Witness ==
    /\ kind = Ch6
    /\ pc = "Executing"
    /\ stream = <<>>
    /\ display # <<>>
    /\ Last(display) = toolStart(message[blk].name, Undefined)
    /\ Last(conversation) = AssistantMessage(message)

\* the type of the block left open by a sequence of events, "none" if none
RECURSIVE OpenBlock(_)
OpenBlock(events) ==
    IF events = <<>> THEN "none"
    ELSE LET e == Last(events)
         IN CASE e.type = "content_block_start" -> e.block
              [] e.type = "content_block_stop" -> "none"
              [] OTHER -> OpenBlock(SubSeq(events, 1, Len(events) - 1))
\* the block type a delta belongs to
DeltaBlock(delta) ==
    CASE delta = "text_delta" -> "text"
      [] delta = "thinking_delta" -> "thinking"
      [] OTHER -> "tool_use"
\* an event out of order: a delta for a block type that is not open, or a
\* block start while a block is open
OutOfOrder(event, open) ==
    \/ event.type = "content_block_delta" /\ DeltaBlock(event.delta) # open
    \/ event.type = "content_block_start" /\ open # "none"

(***************************************************************************)
(* C16: in the streaming agents the step that handles an event out of      *)
(* order (a delta for a block type that is not open, a block start inside  *)
(* an open block) reports the fault on the error display and ends the      *)
(* delivery of the stream, so that no block of the response is dispatched. *)
(***************************************************************************)
C16_MalformedStreamIsFatal ==
    [][(/\ kind \in StreamKinds
        /\ pc = "Streaming"
        /\ stream # <<>>
        /\ OutOfOrder(Head(stream), OpenBlock(delivered))
        /\ delivered' = Append(delivered, Head(stream)))
            => /\ pc' \notin {"Streaming", "Interpreting", "Executing"}
               /\ display' # <<>>
               /\ Last(display').op \in {"error", "console.error"}]_vars

\* the agents C17 compares: the non-streaming chapter-3 agent and the
\* streaming agent of 7-reasoning-response
ComparedKinds == {Ch3, Ch6}
\* the positions of the tool_use blocks of the response, in order
UsePositions ==
    SelectSeq([i \in 1..Len(message) |-> i], LAMBDA i : IsToolUse(message[i]))
\* the executor invocations made for the response being interpreted
HereExecs == {e \in 1..Len(execs) : execs[e].at = Len(conversation)}
\* what interpreting block i of the response yields as a function of the
\* block, the registered tools and the outcome of its executor
ResultFor(i) ==
    IF NoToolNamed(message[i].name)
    THEN PushResult(message[i], Str(NotFoundMsg(message[i].name)), Undefined)
    ELSE LET e == execs[CHOOSE x \in HereExecs : execs[x].blk = i]
         IN IF e.how = "returned"
            THEN PushResult(message[i], Undefined, e.value)
            ELSE PushResult(message[i], Str(ErrMsg(e.value)), Undefined)
\* the response has been interpreted to its end with the outcome the
\* response, the tools and the executor outcomes determine
InterpretedAlike ==
    /\ Last(conversation) = AssistantMessage(message)
    /\ Cardinality(HereExecs)
          = Cardinality({i \in 1..Len(message) :
                            IsToolUse(message[i]) /\ ~NoToolNamed(message[i].name)})
    /\ \A e \in HereExecs :
          /\ IsToolUse(message[execs[e].blk])
          /\ execs[e].tool = FindTool(tools, message[execs[e].blk].name)
          /\ execs[e].input = message[execs[e].blk].input
          /\ \A f \in HereExecs : e < f => execs[e].blk < execs[f].blk
    /\ toolsResults = [k \in 1..Len(UsePositions) |-> ResultFor(UsePositions[k])]
    /\ hasToolUse = (UsePositions # <<>>)

(***************************************************************************)
(* C17: the streaming and the non-streaming agent treat a response alike:  *)
(* in both, the response the transport answers (the final message of the   *)
(* stream, the value of the call) is appended as the assistant message,    *)
(* and at the end of its interpretation the executors invoked (which, in   *)
(* which order, with which input), the tool results collected and          *)
(* hasToolUse are the same function of the response, the registered tools  *)
(* and the executor outcomes; the next step is the continuation call with  *)
(* that tool-result message exactly when the response has a tool_use block.*)
(***************************************************************************)
C17_StreamingMatchesNonStreaming ==
    [][(kind \in ComparedKinds) =>
          /\ (pc \in {"Sending", "Streaming"} /\ pc' = "Interpreting")
                => /\ conversation' = Append(conversation, AssistantMessage(message'))
                   /\ kind \in StreamKinds => message' = incoming
                   /\ blk' = 1
                   /\ toolsResults' = <<>>
                   /\ ~hasToolUse'
          /\ (pc' = "Interpreting" /\ blk' > Len(message')) => InterpretedAlike'
          /\ AfterBlocks
                => /\ (pc' = "Sending") = (UsePositions # <<>>)
                   /\ (pc' = "AwaitingInput") = (UsePositions = <<>>)
                   /\ pc' = "Sending"
                         => /\ conversation' = Append(conversation, ToolResultMessage(toolsResults))
                            /\ sent' = Append(sent, runInference(conversation', tools))]_vars

\* the streaming agent has made the continuation call for a response with an
\* unregistered and a registered tool_use block
C17_Witness ==
    /\ kind = Ch6
    /\ pc = "Sending"
    /\ Len(sent) = 2
    /\ Len(execs) = 1
    /\ Len(toolsResults) = 2
    /\ toolsResults[1].is_error
    /\ Last(conversation) = ToolResultMessage(toolsResults)
    /\ conversation[2] = AssistantMessage(message)

\* the display entries that show a text block, and the text they show
IsTextEntry(e) ==
    \/ e.op = "claude"
    \/ e.op = "console.log" /\ \E t \in Texts : e.text = "Claude: " \o t
TextShown(e) == IF e.op = "claude" THEN e.text ELSE CHOOSE t \in Texts : e.text = "Claude: " \o t
ShownTexts ==
    LET es == SelectSeq(display, IsTextEntry)
    IN [i \in 1..Len(es) |-> TextShown(es[i])]
\* the texts of the text blocks of a content sequence, in order
IsTextBlock(block) == block.type = "text"
TextsOf(content) ==
    LET bs == SelectSeq(content, IsTextBlock)
    IN [i \in 1..Len(bs) |-> bs[i].text]
\* the texts of the text blocks of all responses in a message list, in order
RECURSIVE TextsIn(_)
TextsIn(conv) ==
    IF conv = <<>> THEN <<>>
    ELSE TextsIn(SubSeq(conv, 1, Len(conv) - 1))
            \o (IF IsAssistant(Last(conv)) THEN TextsOf(Last(conv).content.blocks) ELSE <<>>)
\* the texts of the blocks the for-loops have gone through so far
TextsGoneThrough ==
    IF conversation # <<>> /\ IsAssistant(Last(conversation))
    THEN TextsIn(SubSeq(conversation, 1, Len(conversation) - 1)) \o TextsOf(Processed)
    ELSE TextsIn(conversation)

(***************************************************************************)
(* C18: in the non-streaming agents the texts shown on the display are, at *)
(* every moment, exactly the texts of the blocks the for-loop has gone     *)
(* through, in block order: when the executor of a tool_use block is       *)
(* invoked every text block before it has been shown and no text block     *)
(* after it has, and nothing is kept back to the end of the response.      *)
(***************************************************************************)
C18_TextShownAtItsPosition ==
    (kind \notin StreamKinds) => ShownTexts = TextsGoneThrough

\* an executor runs for the second block of a response whose first block is
\* a text that has been shown
C18_Witness ==
    /\ kind \notin StreamKinds
    /\ pc = "Executing"
    /\ blk = 2
    /\ message[1].type = "text"
    /\ display # <<>>
    /\ IsTextEntry(Last(display))
    /\ TextShown(Last(display)) = message[1].text

\* the step hands the next event of the stream to the handler
Delivering ==
    /\ kind \in StreamKinds
    /\ pc = "Streaming"
    /\ stream # <<>>
    /\ delivered' = Append(delivered, Head(stream))
\* what the step writes to the display
NewWrites == SubSeq(display', Len(display) + 1, Len(display'))
\* the writes that carry a fragment of the stream
IsFragmentWrite(e) == e.op \in {"claudeStream", "thinkingStream"}
FragmentWrites == SelectSeq(NewWrites, IsFragmentWrite)
\* the fragment of a delta event is written exactly once, as it is
Forwarded(ev) ==
    /\ Len(FragmentWrites) = 1
    /\ FragmentWrites[1].text = ev.text
    /\ FragmentWrites[1].op
          = (IF ev.delta = "text_delta" THEN "claudeStream" ELSE "thinkingStream")
IsTextDelta(ev) == ev.type = "content_block_delta" /\ ev.delta = "text_delta"
IsThinkingDelta(ev) == ev.type = "content_block_delta" /\ ev.delta = "thinking_delta"
\* the reasoning agent is not showing the thinking fragment it is handling:
\* reasoning is collapsed, no reasoning block is active (never one when
\* thinking is not enabled) or no stage is detected for the accumulated text
ReasoningHidden ==
    /\ kind \in ReasoningKinds
    /\ \/ collapseReasoning
       \/ ~reasoningState.isActive
       \/ reasoningState'.currentStage = "null"

(***************************************************************************)
(* C19 as claimed: in the streaming agents the step that handles a         *)
(* text_delta, or a thinking_delta in a thinking-enabled agent, writes     *)
(* exactly that fragment exactly once, and the step that handles any other *)
(* event writes no fragment.                                               *)
(***************************************************************************)
C19_EveryDeltaForwarded ==
    [][Delivering =>
          IF IsTextDelta(Head(stream))
                \/ (IsThinkingDelta(Head(stream)) /\ kind \in ThinkingKinds)
          THEN Forwarded(Head(stream))
          ELSE FragmentWrites = <<>>]_vars

(***************************************************************************)
(* C19 amended: every text_delta is written exactly once, as it is, by the *)
(* step that handles it; so is every thinking_delta in the                 *)
(* extended-thinking agent and in the reasoning agent while a reasoning    *)
(* block is active, reasoning is not collapsed and a stage is detected for *)
(* the accumulated text; when reasoning is collapsed or no stage is        *)
(* detected the reasoning agent writes no fragment for a thinking_delta    *)
(* and only adds it to the accumulated text, and when no reasoning block   *)
(* is active (as always when thinking is not enabled) it drops the         *)
(* fragment and writes nothing; no other event writes a fragment.          *)
(***************************************************************************)
C19_DeltaForwardedUnlessHidden ==
    [][Delivering =>
          CASE IsTextDelta(Head(stream)) -> Forwarded(Head(stream))
            [] IsThinkingDelta(Head(stream)) /\ kind \in ThinkingKinds /\ ~ReasoningHidden ->
                    Forwarded(Head(stream))
            [] IsThinkingDelta(Head(stream)) /\ ReasoningHidden ->
                    /\ FragmentWrites = <<>>
                    /\ (collapseReasoning \/ ~reasoningState.isActive) => NewWrites = <<>>
                    /\ (~enableThinking) => ~reasoningState.isActive
                    /\ reasoningState'.accumulatedText
                          = (IF reasoningState.isActive
                             THEN reasoningState.accumulatedText \o Head(stream).text
                             ELSE reasoningState.accumulatedText)
            [] OTHER -> FragmentWrites = <<>>]_vars

\* the reasoning agent, collapsing, has taken a thinking fragment into the
\* accumulated text and written nothing
C19_Witness ==
    /\ kind \in ReasoningKinds
    /\ collapseReasoning
    /\ pc = "Streaming"
    /\ delivered # <<>>
    /\ IsThinkingDelta(Last(delivered))
    /\ reasoningState.accumulatedText = Last(delivered).text
    /\ display = <<>>

\* the state of the loop's state machine a position of run() belongs to: the
\* call and the delivery of its stream are Sending, the await of an executor
\* is Dispatching; "Returned" and "Ended" are outside the loop
LoopState(p) ==
    CASE p = "Streaming" -> "Sending"
      [] p = "Executing" -> "Dispatching"
      [] OTHER -> p

(***************************************************************************)
(* C20: every step of run() moves along the state machine                  *)
(* AwaitingInput -> Sending -> Interpreting -> (Dispatching -> Sending ->  *)
(* Interpreting)* -> Idle -> AwaitingInput, Idle being the end of the      *)
(* for-loop over a response without tool_use block: Dispatching is entered *)
(* only from Interpreting, at a tool_use block, and left only for          *)
(* Interpreting; Sending is entered only by the step that appends the      *)
(* user line or the tool-result message; Interpreting is entered only from *)
(* Sending; AwaitingInput is re-entered only from Idle or by an empty      *)
(* line. The loop is left only at the prompt (end of input) or through the *)
(* catch block of the turn.                                                *)
(***************************************************************************)
C20_LoopFollowsStateMachine ==
    [][LET from == LoopState(pc)
           to == LoopState(pc')
       IN /\ (to = "Dispatching" /\ from # "Dispatching")
                => from = "Interpreting" /\ AtBlock /\ IsToolUse(message[blk])
          /\ (from = "Dispatching" /\ to # "Dispatching")
                => to \in {"Interpreting", "Returned"}
          /\ (to = "Sending" /\ from # "Sending")
                => \/ /\ from = "AwaitingInput"
                      /\ conversation' = Append(conversation, UserText(userInput'))
                   \/ /\ from = "Interpreting"
                      /\ AfterBlocks
                      /\ ToolUses(message) # <<>>
                      /\ conversation' = Append(conversation, ToolResultMessage(toolsResults))
          /\ (from = "Sending" /\ to # "Sending") => to \in {"Interpreting", "Returned"}
          /\ (to = "Interpreting" /\ from # "Interpreting")
                => from \in {"Sending", "Dispatching"}
          /\ (from = "Interpreting" /\ to # "Interpreting")
                => to \in {"Dispatching", "Sending", "AwaitingInput"}
          /\ to = "AwaitingInput"
                => \/ from = "Interpreting" /\ AfterBlocks /\ ToolUses(message) = <<>>
                   \/ from = "AwaitingInput" /\ userInput' = "" /\ conversation' = conversation
          /\ from = "AwaitingInput" => to \in {"AwaitingInput", "Sending", "Ended"}
          /\ from \in {"Returned", "Ended"} => to = from]_vars

\* a whole turn with one dispatch has gone round the machine and the loop is
\* at the prompt again
C20_Witness ==
    /\ pc = "AwaitingInput"
    /\ Len(sent) = 2
    /\ Len(conversation) = 4
    /\ Len(execs) = 1
    /\ IsToolResults(conversation[3])
    /\ IsAssistant(conversation[4])

\* the user messages of a conversation that are lines typed at the prompt
IsUserLine(m) == m.role = "user" /\ m.content.t = "string"
UserLines(conv) == SelectSeq(conv, IsUserLine)
\* the response run() is interpreting, once the for-loop has gone through it
NoToolUseAnswered == pc = "Interpreting" /\ ToolUses(message) = <<>>
ToolUseAnswered == AfterBlocks /\ ToolUses(message) # <<>>

(***************************************************************************)
(* C21: when every transport call returns and every executor completes, a  *)
(* turn gets back to the prompt if and only if the model answers a         *)
(* response without tool_use block: such a response always leads to the    *)
(* prompt, the prompt is reached from inside a turn only after such a      *)
(* response, and a response with a tool_use block always leads to one more *)
(* transport call of the same turn, however many calls the turn has made   *)
(* (MaxCalls caps the run that is explored, not the loop).                 *)
(***************************************************************************)
C21_TurnEndsIffNoToolUse ==
    /\ NoToolUseAnswered ~> (pc = "AwaitingInput")
    /\ [][(pc # "AwaitingInput" /\ pc' = "AwaitingInput")
            => /\ NoToolUseAnswered
               /\ IsAssistant(Last(conversation))
               /\ ToolUses(Last(conversation).content.blocks) = <<>>]_vars
    /\ (ToolUseAnswered /\ Len(sent) < MaxCalls)
            ~> (pc = "Sending" /\ IsToolResults(Last(conversation)))

\* one turn has made as many transport calls as the explored run allows and
\* is back at the prompt
C21_Witness ==
    /\ pc = "AwaitingInput"
    /\ Len(sent) = MaxCalls
    /\ Len(conversation) = 2 * MaxCalls
    /\ Len(UserLines(conversation)) = 1

\* the entries of the display log that report an error
IsErrorEntry(e) == e.op \in {"error", "console.error"}
ErrorsShown == SelectSeq(display, IsErrorEntry)

(***************************************************************************)
(* C22: the end of input at the prompt ends run() normally: the step that  *)
(* leaves the prompt for good appends no message, makes no transport call, *)
(* starts no executor and shows nothing; it is the only way to "Ended",    *)
(* which is not the exit of the catch block, and nothing happens after it. *)
(***************************************************************************)
C22_EndOfInputEndsRunQuietly ==
    [][/\ (pc' = "Ended" /\ pc # "Ended")
            => /\ pc = "AwaitingInput"
               /\ UNCHANGED <<conversation, sent, display, execs>>
       /\ (pc = "AwaitingInput" /\ pc' \notin {"AwaitingInput", "Sending"})
            => pc' = "Ended" /\ ErrorsShown' = ErrorsShown
       /\ pc = "Ended" => UNCHANGED vars]_vars

\* the input ended at the prompt that follows a completed turn
C22_Witness ==
    /\ pc = "Ended"
    /\ Len(conversation) = 2
    /\ Len(sent) = 1
    /\ ErrorsShown = <<>>

(***************************************************************************)
(* C23: every transport call is given the whole conversation as it stands  *)
(* when the call is made, in order, and the descriptors of exactly the     *)
(* tools registered at construction, in registration order; this.tools     *)
(* never changes, and what an earlier call was given is a prefix of what a *)
(* later call is given.                                                    *)
(***************************************************************************)
C23_CallsGetConversationAndTools ==
    [][/\ tools' = tools
       /\ tools = ToolsOf(kind)
       /\ sent' # sent
            => /\ Len(sent') = Len(sent) + 1
               /\ SubSeq(sent', 1, Len(sent)) = sent
               /\ Last(sent').messages = conversation'
               /\ Last(sent').tools = ToolsOf(kind)
               /\ \A c \in 1..Len(sent) :
                     /\ IsPrefix(sent[c].messages, Last(sent').messages)
                     /\ sent[c].tools = Last(sent').tools]_vars

\* a continuation call has been made by an agent with two registered tools
C23_Witness ==
    /\ pc = "Sending"
    /\ Len(sent) = 2
    /\ Len(sent[2].messages) = 3
    /\ IsToolResults(sent[2].messages[3])
    /\ sent[2].tools = <<ListFilesToolDefinition, ReadFileToolDefinition>>

\* the awaited executor settles in this step with a text: it returned it
\* (Promise<string>) or resolved to [undefined, text] (Result<string>)
SucceedsWith(value) ==
    /\ pc = "Executing"
    /\ Len(execs') = Len(execs)
    /\ Last(execs').value = value
    /\ value.t = "string"
    /\ Last(execs').how \in {"returned", "resolved"}

(***************************************************************************)
(* C24: when the executor of a registered tool returns normally with a     *)
(* text t, the empty text included, exactly one tool_result is pushed for  *)
(* the block: it has the block's id, payload t and is_error false.         *)
(***************************************************************************)
C24_SuccessBecomesOneNonErrorResult ==
    [][\A t \in ReturnedTexts :
          SucceedsWith(Str(t))
            => /\ toolsResults' = Append(toolsResults,
                                         ToolResult(message[blk].id, Str(t), FALSE))
               /\ pc' = "Interpreting"
               /\ blk' = blk + 1]_vars

\* an executor has just returned the empty text and its result is pushed
C24_Witness ==
    /\ pc = "Interpreting"
    /\ execs # <<>>
    /\ Last(execs).at = Len(conversation)
    /\ Last(execs).blk = blk - 1
    /\ Last(execs).how = "returned"
    /\ Last(execs).value = Str("")
    /\ toolsResults # <<>>
    /\ Last(toolsResults) = ToolResult(message[blk - 1].id, Str(""), FALSE)

\* the calls that finalize the display state of a turn: they close what is
\* open and show no content
IsFinalizer(e) == e.op \in {"finishClaudeTurn", "reasoningEnd"}
\* the response run() has received is the empty content sequence
EmptyAnswered == pc = "Interpreting" /\ message = <<>>

(***************************************************************************)
(* C25: a response with an empty content sequence is a completed turn with *)
(* no output. Once it is received no block is gone through, no result is   *)
(* collected and the one step taken returns to the prompt: no message is   *)
(* appended, no transport call is made, no executor is started, no error   *)
(* is reported and the display is only finalized (finishClaudeTurn, which  *)
(* prints nothing when no assistant text was shown in the turn). In the    *)
(* streaming agents its stream delivers no event and shows nothing.        *)
(***************************************************************************)
C25_EmptyResponseCompletesTurn ==
    [][/\ EmptyAnswered
            => /\ AfterBlocks
               /\ ~hasToolUse
               /\ toolsResults = <<>>
               /\ pc' = "AwaitingInput"
               /\ UNCHANGED <<conversation, sent, execs>>
               /\ \A i \in 1..Len(NewWrites) : IsFinalizer(NewWrites[i])
               /\ \A i \in 1..Len(NewWrites) :
                     (NewWrites[i].op = "finishClaudeTurn" /\ kind \in ConsoleKinds)
                        => NewWrites[i].printed = claudeTurnStarted
       /\ (pc = "Streaming" /\ incoming = <<>> /\ pc' # "Returned")
            => /\ stream = <<>>
               /\ display' = display
               /\ pc' = "Interpreting" /\ message' = <<>>
               /\ conversation' = Append(conversation, AssistantMessage(<<>>))]_vars

\* the turn of a console agent ended on an empty first response: the loop is
\* at the prompt and the only display call made printed nothing
C25_Witness ==
    /\ pc = "AwaitingInput"
    /\ kind \in ConsoleKinds
    /\ Len(conversation) = 2
    /\ conversation[2] = AssistantMessage(<<>>)
    /\ Len(sent) = 1
    /\ execs = <<>>
    /\ display = <<finishClaudeTurn(FALSE)>>

\* the assistant text the display has shown, block by block: whole blocks
\* (claude, console.log) or the fragment of a block (claudeStream)
ShowsAssistantText(e) == IsTextEntry(e) \/ e.op = "claudeStream"
AssistantTextShown ==
    LET es == SelectSeq(display, ShowsAssistantText)
    IN [i \in 1..Len(es) |-> IF IsTextEntry(es[i]) THEN TextShown(es[i]) ELSE es[i].text]
Assistants == SelectSeq(conversation, IsAssistant)
\* the run so far is one finished turn in which the model answered one
\* tool_use block for a registered tool, the executor returned a text, and
\* the model then answered one text block
ScenarioA ==
    /\ kind \in ToolKinds
    /\ pc \in {"AwaitingInput", "Ended"}
    /\ Len(UserLines(conversation)) = 1
    /\ Len(Assistants) = 2
    /\ Len(Assistants[1].content.blocks) = 1
    /\ IsToolUse(Assistants[1].content.blocks[1])
    /\ FindTool(tools, Assistants[1].content.blocks[1].name) # 0
    /\ Len(Assistants[2].content.blocks) = 1
    /\ IsTextBlock(Assistants[2].content.blocks[1])
    /\ Len(execs) = 1
    /\ execs[1].how \in {"returned", "resolved"}
    /\ execs[1].value.t = "string"

(***************************************************************************)
(* C26 (scenario A): a turn in which the first response is one tool_use    *)
(* block for a registered tool whose executor returns a text t and the     *)
(* second response is one text block x makes exactly two transport calls,  *)
(* leaves the conversation as the user line, the assistant message with    *)
(* the tool_use block, one user message with one tool_result (payload t,   *)
(* is_error false, the block's id) and the assistant message with x, and   *)
(* shows exactly x as assistant text.                                      *)
(***************************************************************************)
C26_ScenarioA ==
    ScenarioA
        => /\ Len(sent) = 2
           /\ Len(conversation) = 4
           /\ IsUserLine(conversation[1]) /\ conversation[1].content.s # ""
           /\ conversation[2] = Assistants[1]
           /\ conversation[3].role = "user"
           /\ conversation[3].content.t = "blocks"
           /\ Len(conversation[3].content.blocks) = 1
           /\ conversation[3].content.blocks[1].type = "tool_result"
           /\ conversation[3].content.blocks[1].tool_use_id
                    = Assistants[1].content.blocks[1].id
           /\ conversation[3].content.blocks[1].content = execs[1].value
           /\ conversation[3].content.blocks[1].is_error = FALSE
           /\ conversation[4] = Assistants[2]
           /\ sent[1].messages = SubSeq(conversation, 1, 1)
           /\ sent[2].messages = SubSeq(conversation, 1, 3)
           /\ AssistantTextShown = <<Assistants[2].content.blocks[1].text>>

\* scenario A has been played to its end by the chapter-3 agent with a
\* non-empty tool output
C26_Witness ==
    /\ ScenarioA
    /\ kind = Ch3
    /\ pc = "AwaitingInput"
    /\ execs[1].value = Str("a.txt")
    /\ conversation[4] = AssistantMessage(<<TextBlock("x")>>)
    /\ AssistantTextShown = <<"x">>

\* how many of the first n display calls are op calls for the tool name
ToolCalls(op, name, n) ==
    Cardinality({i \in 1..n : display[i].op = op /\ display[i].name = name})
\* how many tool_use blocks for the name the for-loops have gone through
RECURSIVE UsesIn(_, _)
UsesIn(conv, name) ==
    IF conv = <<>> THEN 0
    ELSE UsesIn(SubSeq(conv, 1, Len(conv) - 1), name)
            + (IF IsAssistant(Last(conv))
               THEN Cardinality({i \in DOMAIN Last(conv).content.blocks :
                        /\ IsToolUse(Last(conv).content.blocks[i])
                        /\ Last(conv).content.blocks[i].name = name})
               ELSE 0)

(***************************************************************************)
(* C27: in the streaming agents every tool_use block gone through is shown *)
(* as "tool-call started" once and as "tool-call finished" once, in that   *)
(* order: whenever toolEnd is called for a tool name, toolStart has been   *)
(* called for it more often than toolEnd had been before, and when the     *)
(* turn is over both have been called once per tool_use block.             *)
(***************************************************************************)
C27_ToolStartedThenFinished ==
    kind \in StreamKinds
        => /\ \A n \in 1..Len(display) :
                 display[n].op = "toolEnd"
                    => ToolCalls("toolStart", display[n].name, n)
                            >= ToolCalls("toolEnd", display[n].name, n)
           /\ pc = "AwaitingInput"
                 => \A name \in RequestedNames :
                       /\ ToolCalls("toolStart", name, Len(display)) = UsesIn(conversation, name)
                       /\ ToolCalls("toolEnd", name, Len(display)) = UsesIn(conversation, name)

\* the transient state of the stream handlers is as it is at construction
TransientFresh == ~isThinking /\ reasoningState = IdleReasoning

(***************************************************************************)
(* C28: the transient streaming state belongs to one streamed call: it is  *)
(* fresh when a streamed call begins (run() is at the call), discarded     *)
(* when its stream has completed (run() interprets the final message), and *)
(* at every user prompt isThinking and reasoningState.isActive are false   *)
(* and the accumulated text is empty.                                      *)
(***************************************************************************)
C28_TransientStatePerStreamedCall ==
    (kind \in StreamKinds /\ pc \in {"Sending", "Interpreting", "Executing", "AwaitingInput"})
        => TransientFresh

\* the thinkingStart / thinkingEnd calls among a sequence of display calls
IsThinkingMark(e) == e.op \in {"thinkingStart", "thinkingEnd"}
ThinkingMarks(entries) == SelectSeq(entries, IsThinkingMark)
IsThinkingEnd(e) == e.op = "thinkingEnd"
\* the console calls strictly alternate, beginning with thinkingStart
MarksAlternate ==
    \A i \in 1..Len(ThinkingMarks(display)) :
        ThinkingMarks(display)[i].op = (IF i % 2 = 1 THEN "thinkingStart" ELSE "thinkingEnd")
\* what handling the next event of the stream must show
ThinkingBlockClosedOnStop ==
    LET ev == Head(stream)
        open == OpenBlock(delivered)
    IN /\ (ev.type = "content_block_start" /\ ev.block = "thinking")
            => ThinkingMarks(NewWrites) = <<thinkingStart>>
       /\ (ev.type = "content_block_stop" /\ open = "thinking")
            => /\ Len(ThinkingMarks(NewWrites)) = 1
               /\ IsThinkingEnd(ThinkingMarks(NewWrites)[1])
       /\ (ev.type = "content_block_stop" /\ open # "thinking")
            => ThinkingMarks(NewWrites) = <<>>

(***************************************************************************)
(* C29: in the extended-thinking agent, over any sequence of events, the   *)
(* thinkingStart and thinkingEnd calls strictly alternate beginning with   *)
(* thinkingStart, the start of a thinking block yields exactly one         *)
(* thinkingStart, its content_block_stop exactly one thinkingEnd, the      *)
(* content_block_stop of any other block none, and isThinking equals the   *)
(* console's thinkingBlockActive.                                          *)
(***************************************************************************)
C29_ThinkingClosedOnBlockStop ==
    /\ [](kind = Ch7 => MarksAlternate /\ isThinking = thinkingBlockActive)
    /\ [][(Delivering /\ kind = Ch7) => ThinkingBlockClosedOnStop]_vars

\* the console_out calls that show assistant text, and the call that ends a turn
IsClaudeCall(e) == e.op \in {"claude", "claudeStream"}
IsFinishCall(e) == e.op = "finishClaudeTurn"
\* display[i] is the first claude / claudeStream call since the last
\* finishClaudeTurn call (or since the start)
FirstSinceFinish(i) ==
    \A j \in 1..(i - 1) :
        IsClaudeCall(display[j]) => \E f \in (j + 1)..(i - 1) : IsFinishCall(display[f])
\* the turns of the run that have got back to the prompt
CompletedTurns ==
    Len(UserLines(conversation)) - (IF pc \in {"AwaitingInput", "Ended"} THEN 0 ELSE 1)

(***************************************************************************)
(* C30: in the agents that print through console_out the "Claude" prefix   *)
(* is shown once per turn: a claude / claudeStream call prints the prefix  *)
(* exactly when it is the first such call since the last finishClaudeTurn  *)
(* call, finishClaudeTurn has been called once per completed turn and      *)
(* never inside a turn (so a turn spanning several transport calls prints  *)
(* one prefix), and claudeTurnStarted is false at every prompt.            *)
(***************************************************************************)
C30_ClaudePrefixOncePerTurn ==
    kind \in ConsoleKinds
        => /\ \A i \in 1..Len(display) :
                 IsClaudeCall(display[i]) => (display[i].prefix <=> FirstSinceFinish(i))
           /\ Len(SelectSeq(display, IsFinishCall)) = CompletedTurns
           /\ pc = "AwaitingInput" => ~claudeTurnStarted

\* a finished turn of two transport calls showed assistant text in both and
\* printed the prefix with the first text only
C30_Witness ==
    /\ kind \in ConsoleKinds
    /\ pc = "AwaitingInput"
    /\ Len(sent) = 2
    /\ Len(UserLines(conversation)) = 1
    /\ Len(SelectSeq(display, IsClaudeCall)) = 2
    /\ SelectSeq(display, IsClaudeCall)[1].prefix
    /\ ~SelectSeq(display, IsClaudeCall)[2].prefix
    /\ TextsOf(conversation[2].content.blocks) # <<>>
    /\ TextsOf(conversation[4].content.blocks) # <<>>

\* a slot of a result tuple holds something
Defined(v) == v.t # "undefined"

(***************************************************************************)
(* C31: wrapErr(p) never rejects and always gives a standardized tuple:    *)
(* [undefined, v] when p fulfils with v, [E, undefined] when p rejects     *)
(* with e, where E is e itself if e is an Error and new Error(String(e))   *)
(* otherwise; the two slots are never both defined.                        *)
(***************************************************************************)
C31_WrapErrAlwaysGivesTuple ==
    \A i \in 1..Len(applied) :
        applied[i].fn = "wrapErr"
            => LET p == applied[i].in
                   out == applied[i].out
               IN /\ out.how = "fulfilled"
                  /\ Len(out.value) = 2
                  /\ ~(Defined(out.value[1]) /\ Defined(out.value[2]))
                  /\ p.how = "fulfilled" => out.value = <<Undefined, p.value>>
                  /\ (p.how = "rejected" /\ p.value.t = "Error")
                        => out.value = <<p.value, Undefined>>
                  /\ (p.how = "rejected" /\ p.value.t # "Error")
                        => out.value[1].t = "Error" /\ out.value[2] = Undefined
                  /\ (p.how = "rejected" /\ p.value.t \in {"string", "undefined"})
                        => out.value[1] = Err(JsString(p.value))

(***************************************************************************)
(* C32: the chapter-3 ListFiles executor never raises: however readdir     *)
(* settles, the await of the executor ends with a returned text, and when  *)
(* readdir failed with message m the text is "Error listing files: m",     *)
(* the result pushed for the block carries that text with is_error false,  *)
(* nothing is reported as an error and the loop goes on with the next      *)
(* block of the response.                                                  *)
(***************************************************************************)
C32_ListFilesReturnsItsErrors ==
    [][(kind = Ch3 /\ pc = "Executing" /\ pc' # "Executing")
          => /\ Last(execs').how = "returned"
             /\ Len(applied') = Len(applied) + 1
             /\ Last(applied').out.how = "fulfilled"
             /\ Last(applied').in.how = "rejected"
                   => /\ Last(applied').out.value
                            = Str("Error listing files: " \o Last(applied').in.value.message)
                      /\ Len(toolsResults') = Len(toolsResults) + 1
                      /\ Last(toolsResults').tool_use_id = message[blk].id
                      /\ Last(toolsResults').content = Last(applied').out.value
                      /\ Last(toolsResults').is_error = FALSE
             /\ pc' = "Interpreting"
             /\ blk' = blk + 1
             /\ ErrorsShown' = ErrorsShown]_vars

\* readdir failed, the text was pushed as a success and the turn went on to
\* its continuation call
C32_Witness ==
    /\ kind = Ch3
    /\ pc = "Sending"
    /\ Len(sent) = 2
    /\ applied = <<[fn |-> "ListFiles", in |-> Rejected(Err("ENOENT")),
                    out |-> Fulfilled(Str("Error listing files: ENOENT"))]>>
    /\ IsToolResults(Last(conversation))
    /\ Last(conversation).content.blocks[1].content = Str("Error listing files: ENOENT")
    /\ Last(conversation).content.blocks[1].is_error = FALSE

\* a failure reached the top level of the start: a statement before the try
\* block threw, or agent.run() was reached and rejected
ReachedTopLevel(start) ==
    \/ start.setup.how = "rejected"
    \/ start.setup.how = "fulfilled" /\ start.run.how = "rejected"

(***************************************************************************)
(* C33: in the framework entry point every failure that reaches the top    *)
(* level, an error escaping agent.run() included, is reported on the error *)
(* display and makes the process exit with a non-zero status.              *)
(***************************************************************************)
C33_TopLevelFailureExitsNonZero ==
    \A i \in 1..Len(applied) :
        (applied[i].fn = "main" /\ ReachedTopLevel(applied[i]))
            => /\ applied[i].out.display # <<>>
               /\ applied[i].out.status # 0

\* the toolEnd calls among the display calls made by the step
IsToolEnd(e) == e.op = "toolEnd"
ToolEndsShown == SelectSeq(NewWrites, IsToolEnd)

(***************************************************************************)
(* C34: in the streaming agents the success flag shown for a tool call     *)
(* agrees with the tool_result given to the model: the step that pushes    *)
(* the result of a tool_use block calls toolEnd once, for the block's tool *)
(* name, with success true exactly when the result has is_error false,     *)
(* whether the executor returned, raised (whatever it raised) or no tool   *)
(* has the name.                                                           *)
(***************************************************************************)
C34_ShownFlagAgreesWithResult ==
    [][(kind \in StreamKinds /\ Len(toolsResults') = Len(toolsResults) + 1)
          => /\ Len(ToolEndsShown) = 1
             /\ ToolEndsShown[1].name = message[blk].name
             /\ ToolEndsShown[1].success = ~Last(toolsResults').is_error]_vars

\* the executor invocations made for block i of the response in conversation[j]
InvocationsFor(j, i) == {e \in 1..Len(execs) : execs[e].at = j /\ execs[e].blk = i}
\* the for-loop has reached block i of the response in conversation[j]
Reached(j, i) ==
    \/ j < Len(conversation)
    \/ j = Len(conversation) /\ pc = "Interpreting" /\ i < blk
    \/ j = Len(conversation) /\ pc \in {"Executing", "Returned"} /\ i <= blk
\* the registered tools whose name is exactly the name asked for
ExactlyNamed(name) == {t \in 1..Len(tools) : tools[t].name = name}
\* the least element of a non-empty set of positions
FirstOf(positions) == CHOOSE t \in positions : \A u \in positions : t <= u

(***************************************************************************)
(* C35: for every tool_use block the loop has reached, at most one         *)
(* executor is invoked and it is invoked once, with the block's input: if  *)
(* no registered tool has exactly the requested name (case-sensitive)      *)
(* none is invoked; otherwise the one invoked is the first in registration *)
(* order among the tools with that name, and no other tool is tried after  *)
(* it, whatever the first one answered.                                    *)
(***************************************************************************)
C35_OneExecutorPerToolUse ==
    \A j \in 1..Len(conversation) :
        IsAssistant(conversation[j])
            => \A i \in 1..Len(conversation[j].content.blocks) :
                  LET block == conversation[j].content.blocks[i]
                  IN (IsToolUse(block) /\ Reached(j, i))
                        => IF ExactlyNamed(block.name) = {}
                           THEN InvocationsFor(j, i) = {}
                           ELSE /\ Cardinality(InvocationsFor(j, i)) = 1
                                /\ \A e \in InvocationsFor(j, i) :
                                      /\ execs[e].tool = FirstOf(ExactlyNamed(block.name))
                                      /\ execs[e].input = block.input

\* the name asked for is registered twice, after a tool whose name differs
\* by case only: the second registered tool has been invoked, and has failed
C35_Witness ==
    /\ tools = <<ListFilesCapitalized, ListFilesToolDefinition, ListFilesToolDefinition>>
    /\ pc = "Interpreting"
    /\ Len(execs) = 1
    /\ execs[1].tool = 2
    /\ execs[1].how \in {"raised", "resolved"}
    /\ execs[1].value = Err("boom")
    /\ blk = 2

\* the display calls of the step that show assistant text
TextWrites == SelectSeq(NewWrites, ShowsAssistantText)

(***************************************************************************)
(* C36: in the streaming agents the text of a response is shown exactly    *)
(* once. Assistant text is written only by the step that hands a           *)
(* text_delta of the open stream to the handler, as one claudeStream call  *)
(* with the text of the delta; interpreting the final message writes none. *)
(* Whenever no stream is open the text shown so far is the text of the     *)
(* text blocks of all responses received, in order, each once.             *)
(***************************************************************************)
C36_StreamedTextShownOnce ==
    /\ []((kind \in StreamKinds /\ pc \in {"AwaitingInput", "Sending", "Interpreting", "Executing", "Ended"})
            => AssistantTextShown = TextsIn(conversation))
    /\ [][(kind \in StreamKinds /\ TextWrites # <<>>)
            => /\ Delivering
               /\ IsTextDelta(Head(stream))
               /\ Len(TextWrites) = 1
               /\ TextWrites[1].op = "claudeStream"
               /\ TextWrites[1].text = Head(stream).text]_vars

\* a turn of two streamed calls with a text block in each response is over
\* and both texts have been shown once
C36_Witness ==
    /\ kind \in StreamKinds
    /\ pc = "AwaitingInput"
    /\ Len(sent) = 2
    /\ Len(conversation) = 4
    /\ TextsOf(conversation[2].content.blocks) = <<"x">>
    /\ TextsOf(conversation[4].content.blocks) = <<"y">>
    /\ AssistantTextShown = <<"x", "y">>

\* the agents whose stream handler shows toolStart on content_block_start
StartOnBlockStartKinds == {Ch6, Ch6R}
IsToolStart(e) == e.op = "toolStart"

(***************************************************************************)
(* C37: in the agents that show toolStart on content_block_start the       *)
(* tool-call indications of distinct tool calls do not interleave:         *)
(* "finished" for a tool_use block is shown before "started" for the next  *)
(* one, so between any two toolStart calls there is a toolEnd call.        *)
(***************************************************************************)
C37_ToolIndicationsDoNotInterleave ==
    kind \in StartOnBlockStartKinds
        => \A i \in 1..Len(display) : \A j \in (i + 1)..Len(display) :
              (IsToolStart(display[i]) /\ IsToolStart(display[j]))
                 => \E m \in (i + 1)..(j - 1) : IsToolEnd(display[m])

Next ==
    \/ \E line \in Lines : ReadEmptyLine(line)
    \/ \E line \in Lines : SubmitTurn(line)
    \/ EndOfInput
    \/ \E content \in Responses(kind, tools, nextId, MaxExecs - Len(execs)) : TransportReturn(content)
    \/ \E err \in TransportFaults : TransportFail(err)
    \/ \E content \in Responses(kind, tools, nextId, MaxExecs - Len(execs)) :
          \E events \in Deliveries(content) : StreamOpen(content, events)
    \/ StreamEvent
    \/ \E newStage \in DetectedStages : ReasoningStreamEvent(newStage)
    \/ FinalMessage
    \/ DisplayText
    \/ SkipBlock
    \/ DispatchTool
    \/ ToolNotFound
    \/ \E text \in ReturnedTexts : ExecutorReturn(text)
    \/ \E err \in RaisedValues : ExecutorRaise(err)
    \/ \E m \in TupleErrors : ExecutorResolve(Err(m), Undefined)
    \/ \E text \in ReturnedTexts : ExecutorResolve(Undefined, Str(text))
    \/ \E err \in RejectedValues : ExecutorReject(err)
    \/ FinishTurn
    \/ ContinueTurn

Spec == Init /\ [][Next]_vars

(***************************************************************************)
(* Fairness: run() is one sequential async function, so a step of the loop *)
(* that can be taken is taken; the transport answers every call and every  *)
(* awaited executor settles.                                               *)
(***************************************************************************)
LoopStep ==
    \/ StreamEvent
    \/ \E newStage \in DetectedStages : ReasoningStreamEvent(newStage)
    \/ FinalMessage
    \/ DisplayText
    \/ SkipBlock
    \/ DispatchTool
    \/ ToolNotFound
    \/ FinishTurn
    \/ ContinueTurn

TransportAnswers ==
    \/ \E content \in Responses(kind, tools, nextId, MaxExecs - Len(execs)) : TransportReturn(content)
    \/ \E content \in Responses(kind, tools, nextId, MaxExecs - Len(execs)) :
          \E events \in Deliveries(content) : StreamOpen(content, events)

ExecutorSettles ==
    \/ \E text \in ReturnedTexts : ExecutorReturn(text)
    \/ \E err \in RaisedValues : ExecutorRaise(err)
    \/ \E m \in TupleErrors : ExecutorResolve(Err(m), Undefined)
    \/ \E text \in ReturnedTexts : ExecutorResolve(Undefined, Str(text))
    \/ \E err \in RejectedValues : ExecutorReject(err)

LiveSpec ==
    /\ Spec
    /\ WF_vars(LoopStep)
    /\ WF_vars(TransportAnswers)
    /\ WF_vars(ExecutorSettles)

====
